---- MODULE Spec2Model ----
(***************************************************************************)
(* A model of the repetition counter of src/app.py: the session store      *)
(* exercise_states, the dispatcher process_landmarks and the nine          *)
(* classifiers it dispatches to.                                           *)
(*                                                                         *)
(* Time is in milliseconds.  Angles are whole degrees, heights are whole   *)
(* hundredths of the image height.  A pose frame does not carry the 33     *)
(* landmarks: it carries, for each group of landmarks a classifier reads,  *)
(* whether the group has its 'x' and 'y' keys and the value the classifier *)
(* derives from it (the result of calculate_angle, a height, a comparison  *)
(* of two heights).  The 'angles' payload of a response is left out.       *)
(***************************************************************************)
EXTENDS Integers, Sequences, FiniteSets, TLC

rep_cooldown == 1000
hold_threshold == 500

\* The wall clock (ms since the epoch) when the first request arrives: far
\* beyond rep_cooldown and hold_threshold, which is all the code depends on.
StartTime == 10000

\* Requests per behaviour.
MaxCalls == 4

SessionIds == {"s1", "s2"}

DispatchedTypes ==
    {"bicepCurl", "squat", "pushup", "shoulderPress", "handstand",
     "pullUp", "situp", "jumpingJacks", "lunge"}

\* The types a client may send: the dispatched ones and one that is not.
ExerciseTypes == DispatchedTypes \cup {"tricepExtension"}

\* Milliseconds of wall clock between two successive requests.
Deltas == {0, 200, 600}

\* The threads of the server that handle requests at the same time.
Threads == {1, 2}

VARIABLES
    exercise_states,  \* the session store: client_key -> state record
    now,              \* the wall clock at the last request
    calls,            \* requests handled so far
    clients,          \* the <<sessionId, exerciseType>> pairs that send requests
    request,          \* the last request handled
    response,         \* the response to it
    history,          \* client_key -> what the client has observed
    mirror,           \* whether two clients were sent the same frames
    threads,          \* thread -> its position in a request it is handling
    increments        \* the clock of each execution of line 395, in order

vars == <<exercise_states, now, calls, clients, request, response, history,
          mirror, threads, increments>>

-----------------------------------------------------------------------------
(* Landmarks *)

\* all(k in lm for k in ['x', 'y'])
HasXY(p) == p.lm = "xy"

\* A group of landmarks with its keys and the value derived from it, and one
\* whose landmarks are dictionaries without 'x' and 'y'.
Lm(v) == [lm |-> "xy", v |-> v]
NoKeys == [lm |-> "nokeys", v |-> 0]

\* A group of landmarks one of which is null: the test for its keys raises
\* TypeError.
NullLm == [lm |-> "null", v |-> 0]
IsNull(p) == p.lm = "null"

\* Frames every classifier can be sent: a list too short to index, a list of
\* nulls, a list of dictionaries that have neither 'x' nor 'y'.
ShortFrame == [kind |-> "short"]
NullFrame == [kind |-> "null"]

-----------------------------------------------------------------------------
(* The session store *)

\* client_key without the session id.
client_key_of_type(session_id, exercise_type) == "_" \o exercise_type

client_key(session_id, exercise_type) == session_id \o "_" \o exercise_type

\* A new state that starts in the stage "up".
NewStateStageUp(exercise_type) ==
    [repCounter |-> 0, stage |-> "up", lastRepTime |-> 0, holdStart |-> 0,
     leftArmStage |-> "down", rightArmStage |-> "down",
     leftArmHoldStart |-> 0, rightArmHoldStart |-> 0,
     exerciseType |-> exercise_type]

\* Lines 46-57: the state created for a key the store does not hold.
NewState(exercise_type) ==
    [repCounter |-> 0, stage |-> "down", lastRepTime |-> 0, holdStart |-> 0,
     leftArmStage |-> "down", rightArmStage |-> "down",
     leftArmHoldStart |-> 0, rightArmHoldStart |-> 0,
     exerciseType |-> exercise_type]

\* An except branch that answers with the values of a new state.
ExceptionResultDefaults(state) ==
    [state |-> state,
     result |-> [repCounter |-> 0, stage |-> "down",
                 feedback |-> "Error: exception"]]

\* The except branch every classifier ends with: the state as the exception
\* found it, and its repCounter and stage with the error as feedback.
ExceptionResult(state) ==
    [state |-> state,
     result |-> [repCounter |-> state.repCounter, stage |-> state.stage,
                 feedback |-> "Error: exception"]]

-----------------------------------------------------------------------------
(* process_bicep_curl *)

\* BicepArm measuring the hold against the cooldown.
BicepArmLongHold(arm, stage, holdStart, current_time) ==
    LET stage1 == IF arm.v > 150 THEN "down" ELSE stage
        hold1 == IF arm.v > 150 THEN current_time ELSE holdStart
        detected == /\ arm.v < 40
                    /\ stage1 = "down"
                    /\ current_time - hold1 > rep_cooldown
    IN  [stage |-> IF detected THEN "up" ELSE stage1,
         holdStart |-> hold1,
         detected |-> detected]

\* One arm of a bicep-curl frame: its stage, its hold start and whether this
\* frame completes a curl.
BicepArm(arm, stage, holdStart, current_time) ==
    LET stage1 == IF arm.v > 150 THEN "down" ELSE stage
        hold1 == IF arm.v > 150 THEN current_time ELSE holdStart
        detected == /\ arm.v < 40
                    /\ stage1 = "down"
                    /\ current_time - hold1 > hold_threshold
    IN  [stage |-> IF detected THEN "up" ELSE stage1,
         holdStart |-> hold1,
         detected |-> detected]

BicepSkip(stage, holdStart) ==
    [stage |-> stage, holdStart |-> holdStart, detected |-> FALSE]

BicepFeedback(left, right) ==
    IF left /\ right THEN "Great form! Both arms curled."
    ELSE IF left THEN "Left arm curl detected."
    ELSE "Right arm curl detected."

\* process_bicep_curl with one increment for each arm that completes a curl.
process_bicep_curl_per_arm(landmarks, state, current_time) ==
    IF landmarks.kind \in {"short", "null"} THEN ExceptionResult(state)
    ELSE IF IsNull(landmarks.left) THEN ExceptionResult(state)
    ELSE
    LET left == IF HasXY(landmarks.left)
                THEN BicepArm(landmarks.left, state.leftArmStage,
                              state.leftArmHoldStart, current_time)
                ELSE BicepSkip(state.leftArmStage, state.leftArmHoldStart)
        leftDone == [state EXCEPT !.leftArmStage = left.stage,
                                  !.leftArmHoldStart = left.holdStart]
        right == IF HasXY(landmarks.right)
                 THEN BicepArm(landmarks.right, state.rightArmStage,
                               state.rightArmHoldStart, current_time)
                 ELSE BicepSkip(state.rightArmStage, state.rightArmHoldStart)
        arms == [leftDone EXCEPT !.rightArmStage = right.stage,
                                 !.rightArmHoldStart = right.holdStart]
        n == (IF left.detected THEN 1 ELSE 0) +
             (IF right.detected THEN 1 ELSE 0)
        counted == [arms EXCEPT !.repCounter = @ + n,
                                !.lastRepTime = current_time]
    IN  IF IsNull(landmarks.right) THEN ExceptionResult(leftDone)
        ELSE IF /\ left.detected \/ right.detected
                /\ current_time - arms.lastRepTime > rep_cooldown
        THEN [state |-> counted,
              result |-> [repCounter |-> counted.repCounter,
                          stage |-> "up",
                          feedback |-> BicepFeedback(left.detected,
                                                     right.detected)]]
        ELSE [state |-> arms,
              result |-> [repCounter |-> arms.repCounter,
                          stage |-> IF left.detected THEN arms.leftArmStage
                                    ELSE arms.rightArmStage]]

process_bicep_curl(landmarks, state, current_time) ==
    IF landmarks.kind \in {"short", "null"} THEN ExceptionResult(state)
    ELSE IF IsNull(landmarks.left) THEN ExceptionResult(state)
    ELSE
    LET left == IF HasXY(landmarks.left)
                THEN BicepArm(landmarks.left, state.leftArmStage,
                              state.leftArmHoldStart, current_time)
                ELSE BicepSkip(state.leftArmStage, state.leftArmHoldStart)
        leftDone == [state EXCEPT !.leftArmStage = left.stage,
                                  !.leftArmHoldStart = left.holdStart]
        right == IF HasXY(landmarks.right)
                 THEN BicepArm(landmarks.right, state.rightArmStage,
                               state.rightArmHoldStart, current_time)
                 ELSE BicepSkip(state.rightArmStage, state.rightArmHoldStart)
        arms == [leftDone EXCEPT !.rightArmStage = right.stage,
                                 !.rightArmHoldStart = right.holdStart]
        counted == [arms EXCEPT !.repCounter = @ + 1,
                                !.lastRepTime = current_time]
    IN  IF IsNull(landmarks.right) THEN ExceptionResult(leftDone)
        ELSE IF /\ left.detected \/ right.detected
                /\ current_time - arms.lastRepTime > rep_cooldown
        THEN [state |-> counted,
              result |-> [repCounter |-> counted.repCounter,
                          stage |-> "up",
                          feedback |-> BicepFeedback(left.detected,
                                                     right.detected)]]
        ELSE [state |-> arms,
              result |-> [repCounter |-> arms.repCounter,
                          stage |-> IF left.detected THEN arms.leftArmStage
                                    ELSE arms.rightArmStage]]

\* Elbow angles a bicep-curl frame may show.
BicepAngles == {30, 100, 170}

BicepFrames ==
    {ShortFrame, NullFrame,
     [kind |-> "pose", left |-> Lm(170), right |-> NullLm]} \cup
    [kind : {"pose"},
     left : {NoKeys} \cup {Lm(a) : a \in BicepAngles},
     right : {NoKeys} \cup {Lm(a) : a \in BicepAngles}]

-----------------------------------------------------------------------------
(* process_squat *)

\* A squat frame: lhip, rhip (v: the hip's y), lleg, rleg (knee and ankle of
\* that side; v: the knee angle calculate_angle gives with the hip), and
\* narrow: the hip and ankle midpoints are less than 0.05 apart in x.

\* (left_hip['y'] + right_hip['y']) / 2
HipHeight(landmarks) == (landmarks.lhip.v + landmarks.rhip.v) \div 2

\* relative_hip_height > 0.1, for a nonzero initial hip height
HipDropped(current, initial) ==
    IF initial > 0 THEN 10 * (current - initial) > initial
    ELSE 10 * (current - initial) < initial

\* Twice avg_knee_angle, or -1 for None.
SquatKnees2(landmarks) ==
    LET l == HasXY(landmarks.lhip) /\ HasXY(landmarks.lleg)
        r == HasXY(landmarks.rhip) /\ HasXY(landmarks.rleg)
    IN  IF l /\ r THEN landmarks.lleg.v + landmarks.rleg.v
        ELSE IF l THEN 2 * landmarks.lleg.v
        ELSE IF r THEN 2 * landmarks.rleg.v
        ELSE -1

\* SquatCalibrate without the test of line 265: every frame that shows both
\* hips calibrates.
SquatCalibrateAlways(landmarks, state) ==
    IF HasXY(landmarks.lhip) /\ HasXY(landmarks.rhip)
    THEN ("initial_hip_height" :> HipHeight(landmarks)) @@ state
    ELSE state

\* The state after lines 264-268: the calibration of the first frame that
\* shows both hips.
SquatCalibrate(landmarks, state) ==
    IF /\ "initial_hip_height" \notin DOMAIN state
       /\ HasXY(landmarks.lhip) /\ HasXY(landmarks.rhip)
    THEN ("initial_hip_height" :> HipHeight(landmarks)) @@ state
    ELSE state

\* Lines 369-412, from the calibrated state.  rel: relative_hip_height is
\* not None; avg2: twice avg_knee_angle.
SquatDetect(landmarks, cal, rel, avg2, current_time) ==
    LET known == avg2 >= 0
        toUp == known /\ avg2 > 300 /\ cal.stage # "up"
        up == IF toUp THEN [cal EXCEPT !.stage = "up",
                                       !.holdStart = current_time]
              ELSE cal
        bent == known /\ avg2 < 260
        dropped == rel /\ HipDropped(HipHeight(landmarks),
                                     cal.initial_hip_height)
        squat_depth_confirmed == IF rel THEN dropped ELSE TRUE
        ready == bent /\ squat_depth_confirmed /\ up.stage = "up"
        held == current_time - up.holdStart > hold_threshold
        count == ready /\ held
                 /\ current_time - up.lastRepTime > rep_cooldown
        done == IF count
                THEN [up EXCEPT !.stage = "down", !.repCounter = @ + 1,
                                !.lastRepTime = current_time]
                ELSE up
        fb1 == IF toUp THEN "Standing position - ready to squat" ELSE ""
        fb2 == IF bent /\ dropped THEN "Good squat depth!" ELSE fb1
        fb3 == IF count THEN "Rep complete! Great squat."
               ELSE IF ready /\ ~held THEN "Hold squat position"
               ELSE IF bent /\ ~ready /\ squat_depth_confirmed
                       /\ up.stage = "down"
                    THEN "Return to standing position"
               ELSE fb2
        fb4 == IF known /\ done.stage = "up" /\ 260 < avg2 /\ avg2 < 300
               THEN "Begin squat - bend knees more"
               ELSE IF known /\ done.stage = "down" /\ avg2 > 280
                    THEN "Return to standing position fully"
               ELSE fb3
        hip_ankle == /\ HasXY(landmarks.lhip) /\ HasXY(landmarks.rhip)
                     /\ HasXY(landmarks.lleg) /\ HasXY(landmarks.rleg)
        fb5 == IF hip_ankle /\ landmarks.narrow
               THEN "Wider stance recommended for stability"
               ELSE fb4
    IN  [state |-> done,
         result |-> [repCounter |-> done.repCounter, stage |-> done.stage,
                     feedback |-> fb5]]

\* relative_hip_height is computed (lines 272-275) from the calibrated state.
SquatRelative(landmarks, cal) ==
    /\ "initial_hip_height" \in DOMAIN cal
    /\ HasXY(landmarks.lhip) /\ HasXY(landmarks.rhip)

\* SquatRaises for a division that never raises.
SquatNeverRaises(landmarks, cal) == FALSE

\* The division of line 275 raises ZeroDivisionError.
SquatRaises(landmarks, cal) ==
    SquatRelative(landmarks, cal) /\ cal.initial_hip_height = 0

process_squat(landmarks, state, current_time) ==
    IF landmarks.kind \in {"short", "null"} THEN ExceptionResult(state)
    ELSE
    LET cal == SquatCalibrate(landmarks, state)
    IN  IF SquatRaises(landmarks, cal)
        THEN ExceptionResult(cal)
        ELSE SquatDetect(landmarks, cal, SquatRelative(landmarks, cal),
                         SquatKnees2(landmarks), current_time)

SquatFrame(hipL, hipR, kneeL, kneeR, narrow) ==
    [kind |-> "pose", lhip |-> hipL, rhip |-> hipR,
     lleg |-> kneeL, rleg |-> kneeR, narrow |-> narrow]

\* Standing and squatting with both hips in view at three heights, one hip
\* out of view, everything out of view, and a narrow stance.
SquatFrames ==
    {ShortFrame, NullFrame,
     SquatFrame(NoKeys, NoKeys, NoKeys, NoKeys, FALSE)} \cup
    {SquatFrame(Lm(y), Lm(y), Lm(a), Lm(a), FALSE) :
        y \in {0, 50, 60}, a \in {110, 140, 165}} \cup
    {SquatFrame(Lm(50), NoKeys, Lm(a), NoKeys, FALSE) : a \in {110, 165}} \cup
    {SquatFrame(Lm(60), Lm(60), Lm(110), Lm(110), TRUE)}

-----------------------------------------------------------------------------
(* process_pushup *)

\* A push-up frame: shoulders (both; v: their mean y), hips (both; v: their
\* mean y), ankles (both), larm, rarm (elbow and wrist of that side; v: the
\* elbow angle), wristY (the wrists' mean y), and the two angles of the
\* alignment check, shoulder_hip_angle and hip_ankle_angle.

Abs(n) == IF n < 0 THEN -n ELSE n

\* Twice the average of the elbow angles in view, or -1 for None.
ArmsAvg2(landmarks) ==
    LET l == HasXY(landmarks.shoulders) /\ HasXY(landmarks.larm)
        r == HasXY(landmarks.shoulders) /\ HasXY(landmarks.rarm)
    IN  IF l /\ r THEN landmarks.larm.v + landmarks.rarm.v
        ELSE IF l THEN 2 * landmarks.larm.v
        ELSE IF r THEN 2 * landmarks.rarm.v
        ELSE -1

\* The state after lines 462-474.
PushupCalibrate(landmarks, state) ==
    IF "reference_height" \notin DOMAIN state /\ HasXY(landmarks.shoulders)
    THEN IF HasXY(landmarks.hips)
         THEN ("reference_height" :> landmarks.shoulders.v) @@
              ("torso_length" :>
                  Abs(landmarks.shoulders.v - landmarks.hips.v)) @@ state
         ELSE ("reference_height" :> landmarks.shoulders.v) @@ state
    ELSE state

\* 3.6 times body_alignment_score: the sum of the two alignment angles, 0
\* when a shoulder, hip or ankle is out of view.  A score of 70 is 252.
Alignment(landmarks) ==
    IF /\ HasXY(landmarks.shoulders) /\ HasXY(landmarks.hips)
       /\ HasXY(landmarks.ankles)
    THEN landmarks.shoulder_hip_angle + landmarks.hip_ankle_angle
    ELSE 0

\* is_plank_position, lines 594-608
IsPlank(landmarks) ==
    /\ Alignment(landmarks) > 252
    /\ HasXY(landmarks.larm) /\ HasXY(landmarks.rarm)
    /\ Abs(landmarks.wristY - landmarks.shoulders.v) < 20

\* PushupDetect without the plank gate of line 623.
PushupDetectNoGate(landmarks, cal, avg2, current_time) ==
    LET known == avg2 >= 0
        plank == known
        toUp == plank /\ avg2 > 300 /\ cal.stage # "up"
        up == IF toUp THEN [cal EXCEPT !.stage = "up",
                                       !.holdStart = current_time]
              ELSE cal
        bent == plank /\ avg2 < 220 /\ up.stage = "up"
        held == current_time - up.holdStart > hold_threshold
        cool == current_time - up.lastRepTime > rep_cooldown
        count == bent /\ held /\ cool
        done == IF count
                THEN [up EXCEPT !.stage = "down", !.repCounter = @ + 1,
                                !.lastRepTime = current_time]
                ELSE up
        feedback ==
            IF plank
            THEN IF count THEN "Rep complete! Good push-up depth."
                 ELSE IF bent /\ held THEN "Down position - good form!"
                 ELSE IF bent THEN "Down position - hold briefly"
                 ELSE IF toUp THEN "Up position - good plank!"
                 ELSE ""
            ELSE IF known
                 THEN IF Alignment(landmarks) < 252
                      THEN "Keep your body straight for proper push-ups"
                      ELSE "Get into push-up position with hands under shoulders"
                 ELSE "Move to ensure arms are visible"
    IN  [state |-> done,
         result |-> [repCounter |-> done.repCounter, stage |-> done.stage,
                     feedback |-> feedback]]

\* Lines 623-652, from the calibrated state.
PushupDetect(landmarks, cal, avg2, current_time) ==
    LET known == avg2 >= 0
        plank == IsPlank(landmarks) /\ known
        toUp == plank /\ avg2 > 300 /\ cal.stage # "up"
        up == IF toUp THEN [cal EXCEPT !.stage = "up",
                                       !.holdStart = current_time]
              ELSE cal
        bent == plank /\ avg2 < 220 /\ up.stage = "up"
        held == current_time - up.holdStart > hold_threshold
        cool == current_time - up.lastRepTime > rep_cooldown
        count == bent /\ held /\ cool
        done == IF count
                THEN [up EXCEPT !.stage = "down", !.repCounter = @ + 1,
                                !.lastRepTime = current_time]
                ELSE up
        feedback ==
            IF plank
            THEN IF count THEN "Rep complete! Good push-up depth."
                 ELSE IF bent /\ held THEN "Down position - good form!"
                 ELSE IF bent THEN "Down position - hold briefly"
                 ELSE IF toUp THEN "Up position - good plank!"
                 ELSE ""
            ELSE IF known
                 THEN IF Alignment(landmarks) < 252
                      THEN "Keep your body straight for proper push-ups"
                      ELSE "Get into push-up position with hands under shoulders"
                 ELSE "Move to ensure arms are visible"
    IN  [state |-> done,
         result |-> [repCounter |-> done.repCounter, stage |-> done.stage,
                     feedback |-> feedback]]

process_pushup(landmarks, state, current_time) ==
    IF landmarks.kind \in {"short", "null"} THEN ExceptionResult(state)
    ELSE PushupDetect(landmarks, PushupCalibrate(landmarks, state),
                      ArmsAvg2(landmarks), current_time)

PushupFrame(shoulders, hips, ankles, larm, rarm, wristY, a1, a2) ==
    [kind |-> "pose", shoulders |-> shoulders, hips |-> hips,
     ankles |-> ankles, larm |-> larm, rarm |-> rarm, wristY |-> wristY,
     shoulder_hip_angle |-> a1, hip_ankle_angle |-> a2]

\* A plank with the arms straight, half bent and bent; the same arms with the
\* body sagging, with the wrists far from the shoulders, with one arm out of
\* view; and nothing in view.
PushupFrames ==
    {ShortFrame, NullFrame,
     PushupFrame(NoKeys, NoKeys, NoKeys, NoKeys, NoKeys, 0, 0, 0)} \cup
    {PushupFrame(Lm(40), Lm(45), Lm(50), Lm(a), Lm(a), 50, 170, 170) :
        a \in {90, 130, 165}} \cup
    {PushupFrame(Lm(40), Lm(45), Lm(50), Lm(a), Lm(a), 50, 100, 100) :
        a \in {90, 165}} \cup
    {PushupFrame(Lm(40), Lm(45), Lm(50), Lm(a), Lm(a), 80, 170, 170) :
        a \in {90, 165}} \cup
    {PushupFrame(Lm(40), Lm(45), Lm(50), Lm(90), NoKeys, 50, 170, 170)}

-----------------------------------------------------------------------------
(* process_shoulder_press *)

\* A shoulder-press frame: left, right (shoulder, elbow and wrist of that
\* side; v: the elbow angle) and leftAbove, rightAbove: that wrist's y is
\* less than that shoulder's.

PressAvg2(landmarks) ==
    LET l == HasXY(landmarks.left)
        r == HasXY(landmarks.right)
    IN  IF l /\ r THEN landmarks.left.v + landmarks.right.v
        ELSE IF l THEN 2 * landmarks.left.v
        ELSE IF r THEN 2 * landmarks.right.v
        ELSE -1

\* Lines 756-780, for an average elbow angle that is not None.
PressDetect(landmarks, state, avg2, current_time) ==
    LET la == HasXY(landmarks.left) /\ landmarks.leftAbove
        ra == HasXY(landmarks.right) /\ landmarks.rightAbove
        both_below == ~la /\ ~ra
        both_above == la /\ ra
        one_above == la \/ ra
        toDown == avg2 < 200 /\ both_below
        down == IF toDown THEN [state EXCEPT !.stage = "down",
                                             !.holdStart = current_time]
                ELSE state
        pressed == avg2 > 280 /\ (both_above \/ (one_above /\ avg2 > 300))
        count == /\ pressed
                 /\ down.stage = "down"
                 /\ current_time - down.holdStart > hold_threshold
                 /\ current_time - down.lastRepTime > rep_cooldown
        done == IF count
                THEN [down EXCEPT !.stage = "up", !.repCounter = @ + 1,
                                  !.lastRepTime = current_time]
                ELSE down
        fb1 == IF toDown THEN "Ready position - good start" ELSE ""
        fb2 == IF count THEN "Rep complete! Good press."
               ELSE IF pressed /\ down.stage = "up"
                    THEN "Press complete - hold position"
               ELSE fb1
        fb3 == IF done.stage = "down" /\ avg2 < 130
               THEN "Start with arms higher" ELSE fb2
        fb4 == IF one_above /\ ~both_above /\ done.stage = "up"
               THEN "Press both arms evenly" ELSE fb3
    IN  [state |-> done,
         result |-> [repCounter |-> done.repCounter, stage |-> done.stage,
                     feedback |-> fb4]]

process_shoulder_press(landmarks, state, current_time) ==
    IF landmarks.kind \in {"short", "null"} THEN ExceptionResult(state)
    ELSE IF PressAvg2(landmarks) < 0
    THEN [state |-> state,
          result |-> [repCounter |-> state.repCounter, stage |-> state.stage,
                      feedback |-> ""]]
    ELSE PressDetect(landmarks, state, PressAvg2(landmarks), current_time)

PressFrame(left, right, leftAbove, rightAbove) ==
    [kind |-> "pose", left |-> left, right |-> right,
     leftAbove |-> leftAbove, rightAbove |-> rightAbove]

\* Both arms bent with the wrists low, half way, extended with the wrists
\* high, one wrist high only, and nothing in view.
PressFrames ==
    {ShortFrame, NullFrame, PressFrame(NoKeys, NoKeys, FALSE, FALSE),
     PressFrame(Lm(60), Lm(60), FALSE, FALSE),
     PressFrame(Lm(90), Lm(90), FALSE, FALSE),
     PressFrame(Lm(120), Lm(120), TRUE, TRUE),
     PressFrame(Lm(160), Lm(160), TRUE, TRUE),
     PressFrame(Lm(160), Lm(160), TRUE, FALSE),
     PressFrame(Lm(145), Lm(145), TRUE, FALSE)}

-----------------------------------------------------------------------------
(* process_handstand *)

\* A handstand frame of kind "pose" has 'x' and 'y' on all ten landmarks and
\* carries the four angles, inverted (the ankles' mean y is less than the
\* wrists') and the distances between the wrists and between the shoulders.
\* A frame of kind "nokeys" or "null" fails the test of line 818.

\* 0.8 < wrist_distance_ratio < 1.5, the ratio being 0 for a zero shoulder
\* distance.
HandPlacementGood(landmarks) ==
    /\ landmarks.shoulder_distance > 0
    /\ 8 * landmarks.shoulder_distance < 10 * landmarks.wrist_distance
    /\ 10 * landmarks.wrist_distance < 15 * landmarks.shoulder_distance

BodyStraight(landmarks) ==
    landmarks.left_body_angle > 160 /\ landmarks.right_body_angle > 160

LegsStraight(landmarks) ==
    landmarks.left_leg_angle > 160 /\ landmarks.right_leg_angle > 160

IsGoodForm(landmarks) ==
    /\ landmarks.inverted
    /\ BodyStraight(landmarks)
    /\ LegsStraight(landmarks)
    /\ HandPlacementGood(landmarks)

\* Lines 906-920
HandstandFormFeedback(landmarks) ==
    IF ~landmarks.inverted THEN "Get into inverted position"
    ELSE IF ~BodyStraight(landmarks) THEN "Keep your body straight"
    ELSE IF ~LegsStraight(landmarks) THEN "Straighten your legs"
    ELSE IF ~HandPlacementGood(landmarks)
         THEN IF 10 * landmarks.wrist_distance
                    < 8 * landmarks.shoulder_distance
                 \/ landmarks.shoulder_distance <= 0
              THEN "Place hands wider apart"
              ELSE "Place hands closer together"
    ELSE "Great handstand form!"

\* HandstandDetect leaving the handstand for the stage "up" of the other
\* classifiers.
HandstandDetectStageUp(landmarks, state, current_time) ==
    LET good == IsGoodForm(landmarks)
        enter == good /\ state.stage # "inverted"
        inv == IF enter THEN [state EXCEPT !.holdStart = current_time,
                                           !.stage = "inverted"]
               ELSE state
        count == /\ good
                 /\ current_time - inv.holdStart > hold_threshold
                 /\ inv.stage = "inverted"
                 /\ current_time - inv.lastRepTime > rep_cooldown
        done == IF count
                THEN [inv EXCEPT !.repCounter = @ + 1,
                                 !.lastRepTime = current_time]
                ELSE IF ~good /\ state.stage = "inverted"
                     THEN [state EXCEPT !.stage = "up"]
                ELSE inv
        feedback == IF count THEN "Handstand held! Great job!"
                    ELSE IF enter THEN "Good handstand position - hold it!"
                    ELSE HandstandFormFeedback(landmarks)
    IN  [state |-> done,
         result |-> [repCounter |-> done.repCounter, stage |-> done.stage,
                     feedback |-> feedback]]

\* HandstandDetect without the reset of lines 934-937.
HandstandDetectNoReset(landmarks, state, current_time) ==
    LET good == IsGoodForm(landmarks)
        enter == good /\ state.stage # "inverted"
        inv == IF enter THEN [state EXCEPT !.holdStart = current_time,
                                           !.stage = "inverted"]
               ELSE state
        count == /\ good
                 /\ current_time - inv.holdStart > hold_threshold
                 /\ inv.stage = "inverted"
                 /\ current_time - inv.lastRepTime > rep_cooldown
        done == IF count
                THEN [inv EXCEPT !.repCounter = @ + 1,
                                 !.lastRepTime = current_time]
                ELSE IF ~good /\ state.stage = "inverted"
                     THEN state
                ELSE inv
        feedback == IF count THEN "Handstand held! Great job!"
                    ELSE IF enter THEN "Good handstand position - hold it!"
                    ELSE HandstandFormFeedback(landmarks)
    IN  [state |-> done,
         result |-> [repCounter |-> done.repCounter, stage |-> done.stage,
                     feedback |-> feedback]]

\* Lines 922-938
HandstandDetect(landmarks, state, current_time) ==
    LET good == IsGoodForm(landmarks)
        enter == good /\ state.stage # "inverted"
        inv == IF enter THEN [state EXCEPT !.holdStart = current_time,
                                           !.stage = "inverted"]
               ELSE state
        count == /\ good
                 /\ current_time - inv.holdStart > hold_threshold
                 /\ inv.stage = "inverted"
                 /\ current_time - inv.lastRepTime > rep_cooldown
        done == IF count
                THEN [inv EXCEPT !.repCounter = @ + 1,
                                 !.lastRepTime = current_time]
                ELSE IF ~good /\ state.stage = "inverted"
                     THEN [state EXCEPT !.stage = "normal"]
                ELSE inv
        feedback == IF count THEN "Handstand held! Great job!"
                    ELSE IF enter THEN "Good handstand position - hold it!"
                    ELSE HandstandFormFeedback(landmarks)
    IN  [state |-> done,
         result |-> [repCounter |-> done.repCounter, stage |-> done.stage,
                     feedback |-> feedback]]

process_handstand(landmarks, state, current_time) ==
    IF landmarks.kind = "short" THEN ExceptionResult(state)
    ELSE IF landmarks.kind \in {"null", "nokeys"}
    THEN [state |-> state,
          result |-> [repCounter |-> state.repCounter, stage |-> state.stage,
                      feedback |-> "Move to ensure full body is visible"]]
    ELSE HandstandDetect(landmarks, state, current_time)

NoKeysFrame == [kind |-> "nokeys"]

HandstandFrame(body, leg, inverted, wrists, shoulders) ==
    [kind |-> "pose", left_body_angle |-> body, right_body_angle |-> body,
     left_leg_angle |-> leg, right_leg_angle |-> leg, inverted |-> inverted,
     wrist_distance |-> wrists, shoulder_distance |-> shoulders]

\* A good handstand, one with bent legs, one standing upright, one with the
\* shoulders on one point, and nothing in view.
HandstandFrames ==
    {ShortFrame, NullFrame, NoKeysFrame,
     HandstandFrame(175, 175, TRUE, 20, 20),
     HandstandFrame(175, 120, TRUE, 20, 20),
     HandstandFrame(175, 175, FALSE, 20, 20),
     HandstandFrame(175, 175, TRUE, 20, 0)}

-----------------------------------------------------------------------------
(* process_pull_up *)

\* A pull-up frame: left, right (shoulder, elbow and wrist of that side; v:
\* the elbow angle).  A null landmark makes its side invalid.

\* Twice arm_angle, lines 1018-1034.
PullUpArm2(landmarks) ==
    IF HasXY(landmarks.left) /\ HasXY(landmarks.right)
    THEN landmarks.left.v + landmarks.right.v
    ELSE IF HasXY(landmarks.left) THEN 2 * landmarks.left.v
    ELSE 2 * landmarks.right.v

\* PullUpDetect without the cooldown.
PullUpDetectNoCooldown(state, arm2, current_time) ==
    LET previous_stage == state.stage
        staged == IF arm2 < 100 THEN [state EXCEPT !.stage = "up"]
                  ELSE IF arm2 > 300 THEN [state EXCEPT !.stage = "down"]
                  ELSE state
        count == previous_stage = "up" /\ staged.stage = "down"
        done == IF count
                THEN [staged EXCEPT !.repCounter = @ + 1,
                                    !.lastRepTime = current_time]
                ELSE staged
    IN  [state |-> done,
         result |-> [repCounter |-> done.repCounter, stage |-> done.stage,
                     feedback |-> ""]]

\* PullUpDetect with the two thresholds of lines 1041 and 1043 included.
PullUpDetectInclusive(state, arm2, current_time) ==
    LET previous_stage == state.stage
        staged == IF arm2 <= 100 THEN [state EXCEPT !.stage = "up"]
                  ELSE IF arm2 >= 300 THEN [state EXCEPT !.stage = "down"]
                  ELSE state
        count == /\ previous_stage = "up"
                 /\ staged.stage = "down"
                 /\ current_time - staged.lastRepTime > rep_cooldown
        done == IF count
                THEN [staged EXCEPT !.repCounter = @ + 1,
                                    !.lastRepTime = current_time]
                ELSE staged
    IN  [state |-> done,
         result |-> [repCounter |-> done.repCounter, stage |-> done.stage,
                     feedback |-> ""]]

\* PullUpDetect with the stage left at "up" by a frame that would complete a
\* repetition inside the cooldown.
PullUpDetectDeferred(state, arm2, current_time) ==
    LET previous_stage == state.stage
        cool == current_time - state.lastRepTime > rep_cooldown
        staged == IF arm2 < 100 THEN [state EXCEPT !.stage = "up"]
                  ELSE IF arm2 > 300 /\ (previous_stage # "up" \/ cool)
                  THEN [state EXCEPT !.stage = "down"]
                  ELSE state
        count == previous_stage = "up" /\ staged.stage = "down" /\ cool
        done == IF count
                THEN [staged EXCEPT !.repCounter = @ + 1,
                                    !.lastRepTime = current_time]
                ELSE staged
    IN  [state |-> done,
         result |-> [repCounter |-> done.repCounter, stage |-> done.stage,
                     feedback |-> ""]]

\* PullUpDetect with lastRepTime written by every frame that takes the stage
\* from "up" to "down", counted or not.
PullUpDetectStamped(state, arm2, current_time) ==
    LET previous_stage == state.stage
        staged == IF arm2 < 100 THEN [state EXCEPT !.stage = "up"]
                  ELSE IF arm2 > 300 THEN [state EXCEPT !.stage = "down"]
                  ELSE state
        lowered == previous_stage = "up" /\ staged.stage = "down"
        count == lowered /\ current_time - staged.lastRepTime > rep_cooldown
        stamped == IF lowered
                   THEN [staged EXCEPT !.lastRepTime = current_time]
                   ELSE staged
        done == IF count THEN [stamped EXCEPT !.repCounter = @ + 1]
                ELSE stamped
    IN  [state |-> done,
         result |-> [repCounter |-> done.repCounter, stage |-> done.stage,
                     feedback |-> ""]]

\* Lines 1036-1057
PullUpDetect(state, arm2, current_time) ==
    LET previous_stage == state.stage
        staged == IF arm2 < 100 THEN [state EXCEPT !.stage = "up"]
                  ELSE IF arm2 > 300 THEN [state EXCEPT !.stage = "down"]
                  ELSE state
        count == /\ previous_stage = "up"
                 /\ staged.stage = "down"
                 /\ current_time - staged.lastRepTime > rep_cooldown
        done == IF count
                THEN [staged EXCEPT !.repCounter = @ + 1,
                                    !.lastRepTime = current_time]
                ELSE staged
        feedback == IF count THEN "Rep complete! Good pull-up."
                    ELSE IF staged.stage = "up" THEN "Up position - good!"
                    ELSE IF staged.stage = "down"
                         THEN "Down position - pull up!"
                    ELSE ""
    IN  [state |-> done,
         result |-> [repCounter |-> done.repCounter, stage |-> done.stage,
                     feedback |-> feedback]]

\* PositionNotClear putting the stage back to its default.
PositionNotClearReset(state) ==
    [state |-> [state EXCEPT !.stage = "down"],
     result |-> [repCounter |-> state.repCounter, stage |-> "down",
                 feedback |-> "Position not clear - adjust camera"]]

PositionNotClear(state) ==
    [state |-> state,
     result |-> [repCounter |-> state.repCounter, stage |-> state.stage,
                 feedback |-> "Position not clear - adjust camera"]]

process_pull_up(landmarks, state, current_time) ==
    IF landmarks.kind = "short" THEN ExceptionResult(state)
    ELSE IF landmarks.kind = "null" THEN PositionNotClear(state)
    ELSE IF ~HasXY(landmarks.left) /\ ~HasXY(landmarks.right)
    THEN PositionNotClear(state)
    ELSE PullUpDetect(state, PullUpArm2(landmarks), current_time)

PullUpFrames ==
    {ShortFrame, NullFrame,
     [kind |-> "pose", left |-> NoKeys, right |-> NoKeys],
     [kind |-> "pose", left |-> Lm(30), right |-> NoKeys]} \cup
    {[kind |-> "pose", left |-> Lm(a), right |-> Lm(a)] :
        a \in {30, 100, 170}}

-----------------------------------------------------------------------------
(* process_situp *)

\* A sit-up frame of kind "pose" has 'x' and 'y' on the six landmarks and
\* carries the two shoulder-hip-knee angles.

\* SitupDetect leaving the stage at "down" when it counts.
SitupDetectStay(state, avg2, current_time) ==
    LET lying == avg2 > 320
        down == IF lying THEN [state EXCEPT !.stage = "down",
                                            !.holdStart = current_time]
                ELSE state
        count == /\ avg2 < 160 /\ down.stage = "down"
                 /\ current_time - down.holdStart > hold_threshold
                 /\ current_time - down.lastRepTime > rep_cooldown
        done == IF count
                THEN [down EXCEPT !.repCounter = @ + 1,
                                  !.lastRepTime = current_time]
                ELSE down
    IN  [state |-> done,
         result |-> [repCounter |-> done.repCounter, stage |-> done.stage,
                     feedback |-> ""]]

\* SitupDetect with the stage set to "up" before the cooldown is tested.
SitupDetectEager(state, avg2, current_time) ==
    LET lying == avg2 > 320
        down == IF lying THEN [state EXCEPT !.stage = "down",
                                            !.holdStart = current_time]
                ELSE state
        sitting == avg2 < 160 /\ down.stage = "down"
        held == sitting /\ current_time - down.holdStart > hold_threshold
        up == IF held THEN [down EXCEPT !.stage = "up"] ELSE down
        count == held /\ current_time - down.lastRepTime > rep_cooldown
        done == IF count
                THEN [up EXCEPT !.repCounter = @ + 1,
                                !.lastRepTime = current_time]
                ELSE up
    IN  [state |-> done,
         result |-> [repCounter |-> done.repCounter, stage |-> done.stage,
                     feedback |-> ""]]

\* Lines 1138-1161; avg2 is twice avg_angle.
SitupDetect(state, avg2, current_time) ==
    LET lying == avg2 > 320
        down == IF lying THEN [state EXCEPT !.stage = "down",
                                            !.holdStart = current_time]
                ELSE state
        sitting == avg2 < 160 /\ down.stage = "down"
        count == /\ sitting
                 /\ current_time - down.holdStart > hold_threshold
                 /\ current_time - down.lastRepTime > rep_cooldown
        done == IF count
                THEN [down EXCEPT !.stage = "up", !.repCounter = @ + 1,
                                  !.lastRepTime = current_time]
                ELSE down
        feedback == IF count THEN "Rep complete! Good sit-up."
                    ELSE IF sitting THEN "Almost there - complete the sit-up"
                    ELSE IF lying THEN "Down position - prepare to sit up"
                    ELSE ""
    IN  [state |-> done,
         result |-> [repCounter |-> done.repCounter, stage |-> done.stage,
                     feedback |-> feedback]]

process_situp(landmarks, state, current_time) ==
    IF landmarks.kind = "short" THEN ExceptionResult(state)
    ELSE IF landmarks.kind \in {"null", "nokeys"} THEN PositionNotClear(state)
    ELSE SitupDetect(state, landmarks.left_angle + landmarks.right_angle,
                     current_time)

SitupFrames ==
    {ShortFrame, NullFrame, NoKeysFrame} \cup
    {[kind |-> "pose", left_angle |-> a, right_angle |-> a] :
        a \in {60, 120, 170}}

-----------------------------------------------------------------------------
(* process_jumping_jacks *)

\* A jumping-jacks frame of kind "pose" has 'x' and 'y' on the twelve
\* landmarks and carries the eight angles.

IsClosedPosition(f) ==
    /\ f.left_arm_angle > 150 /\ f.right_arm_angle > 150
    /\ f.left_shoulder_angle < 50 /\ f.right_shoulder_angle < 50
    /\ f.left_leg_angle > 160 /\ f.right_leg_angle > 160
    /\ f.left_hip_angle < 30 /\ f.right_hip_angle < 30

IsOpenPosition(f) ==
    /\ f.left_arm_angle < 120 /\ f.right_arm_angle < 120
    /\ f.left_shoulder_angle > 160 /\ f.right_shoulder_angle > 160
    /\ f.left_leg_angle < 140 /\ f.right_leg_angle < 140
    /\ f.left_hip_angle > 50 /\ f.right_hip_angle > 50

\* Lines 1303-1319
JacksDetect(landmarks, state, current_time) ==
    LET closed == IsClosedPosition(landmarks)
        open == IsOpenPosition(landmarks)
        shut == IF closed THEN [state EXCEPT !.stage = "closed",
                                             !.holdStart = current_time]
                ELSE state
        opening == open /\ shut.stage = "closed"
        count == /\ opening
                 /\ current_time - shut.holdStart > hold_threshold
                 /\ current_time - shut.lastRepTime > rep_cooldown
        done == IF count
                THEN [shut EXCEPT !.stage = "open", !.repCounter = @ + 1,
                                  !.lastRepTime = current_time]
                ELSE shut
        feedback == IF ~open /\ ~closed
                    THEN "Transition - continue your movement"
                    ELSE IF count THEN "Rep complete! Good jumping jack."
                    ELSE IF opening THEN "Open position - good form"
                    ELSE IF closed THEN "Closed position - prepare to jump"
                    ELSE ""
    IN  [state |-> done,
         result |-> [repCounter |-> done.repCounter, stage |-> done.stage,
                     feedback |-> feedback]]

process_jumping_jacks(landmarks, state, current_time) ==
    IF landmarks.kind = "short" THEN ExceptionResult(state)
    ELSE IF landmarks.kind \in {"null", "nokeys"} THEN PositionNotClear(state)
    ELSE JacksDetect(landmarks, state, current_time)

JacksFrame(arm, shoulder, leg, hip) ==
    [kind |-> "pose", left_arm_angle |-> arm, right_arm_angle |-> arm,
     left_shoulder_angle |-> shoulder, right_shoulder_angle |-> shoulder,
     left_leg_angle |-> leg, right_leg_angle |-> leg,
     left_hip_angle |-> hip, right_hip_angle |-> hip]

\* Closed, open and in between.
JacksFrames ==
    {ShortFrame, NullFrame, NoKeysFrame,
     JacksFrame(170, 20, 175, 10),
     JacksFrame(100, 170, 130, 60),
     JacksFrame(140, 90, 150, 40)}

-----------------------------------------------------------------------------
(* process_lunge *)

\* A lunge frame of kind "pose" has 'x' and 'y' on the six landmarks and
\* carries the two knee angles and the two knees' y.

\* Lines 1421-1448
LungeDetect(f, state, current_time) ==
    LET knee_height_diff == Abs(f.left_knee_y - f.right_knee_y)
        leftLower == f.left_knee_y > f.right_knee_y
        front_leg_angle == IF leftLower THEN f.right_leg_angle
                           ELSE f.left_leg_angle
        back_leg_angle == IF leftLower THEN f.left_leg_angle
                          ELSE f.right_leg_angle
        standing == /\ f.left_leg_angle > 150 /\ f.right_leg_angle > 150
                    /\ knee_height_diff < 10
        up == IF standing THEN [state EXCEPT !.stage = "up",
                                             !.holdStart = current_time]
              ELSE state
        proper_front_angle == front_leg_angle < 110
        proper_back_angle == back_leg_angle > 130
        proper_knee_height == knee_height_diff > 20
        lunging == /\ proper_front_angle /\ proper_back_angle
                   /\ proper_knee_height /\ up.stage = "up"
        count == /\ lunging
                 /\ current_time - up.holdStart > hold_threshold
                 /\ current_time - up.lastRepTime > rep_cooldown
        done == IF count
                THEN [up EXCEPT !.stage = "down", !.repCounter = @ + 1,
                                !.lastRepTime = current_time]
                ELSE up
        fb1 == IF count THEN "Rep complete! Good lunge."
               ELSE IF lunging THEN "Lunge position - hold it"
               ELSE IF standing THEN "Standing position - prepare for lunge"
               ELSE ""
        feedback ==
            IF done.stage = "down" /\ ~proper_front_angle
            THEN "Bend your front knee more"
            ELSE IF done.stage = "down" /\ ~proper_back_angle
            THEN "Keep your back leg straighter"
            ELSE IF done.stage = "up" /\ knee_height_diff > 10
            THEN "Stand with feet together"
            ELSE fb1
    IN  [state |-> done,
         result |-> [repCounter |-> done.repCounter, stage |-> done.stage,
                     feedback |-> feedback]]

process_lunge(landmarks, state, current_time) ==
    IF landmarks.kind = "short" THEN ExceptionResult(state)
    ELSE IF landmarks.kind \in {"null", "nokeys"} THEN PositionNotClear(state)
    ELSE LungeDetect(landmarks, state, current_time)

LungeFrame(left, right, leftY, rightY) ==
    [kind |-> "pose", left_leg_angle |-> left, right_leg_angle |-> right,
     left_knee_y |-> leftY, right_knee_y |-> rightY]

\* Standing, a lunge on the right leg, and a half lunge.
LungeFrames ==
    {ShortFrame, NullFrame, NoKeysFrame,
     LungeFrame(170, 170, 60, 60),
     LungeFrame(150, 90, 85, 60),
     LungeFrame(150, 120, 75, 60)}

-----------------------------------------------------------------------------
(* What a client can observe of its session over time.  The program keeps   *)
(* none of this: it is recorded beside the store, per client key.           *)

ArmExtended(arm) == HasXY(arm) /\ arm.v > 150
ArmCurled(arm) == HasXY(arm) /\ arm.v < 40

\* The frame shows the phase a cycle of the exercise starts from (for the
\* handstand: a visible body that is not in good form).  state is the
\* session's state when the frame arrives.
StartPhase(exercise_type, f, state) ==
    /\ f.kind = "pose"
    /\ CASE exercise_type = "bicepCurl" ->
                ArmExtended(f.left) \/ ArmExtended(f.right)
         [] exercise_type = "squat" ->
                /\ ~SquatRaises(f, SquatCalibrate(f, state))
                /\ SquatKnees2(f) > 300
         [] exercise_type = "pushup" -> IsPlank(f) /\ ArmsAvg2(f) > 300
         [] exercise_type = "shoulderPress" ->
                /\ PressAvg2(f) >= 0 /\ PressAvg2(f) < 200
                /\ ~(HasXY(f.left) /\ f.leftAbove)
                /\ ~(HasXY(f.right) /\ f.rightAbove)
         [] exercise_type = "handstand" -> ~IsGoodForm(f)
         [] exercise_type = "pullUp" ->
                (HasXY(f.left) \/ HasXY(f.right)) /\ PullUpArm2(f) < 100
         [] exercise_type = "situp" -> f.left_angle + f.right_angle > 320
         [] exercise_type = "jumpingJacks" -> IsClosedPosition(f)
         [] exercise_type = "lunge" ->
                /\ f.left_leg_angle > 150 /\ f.right_leg_angle > 150
                /\ Abs(f.left_knee_y - f.right_knee_y) < 10
         [] OTHER -> FALSE

\* The classifier's try block raises on frame f with the session in state:
\* an index past the end of the list, a test for 'x' in None where the
\* classifier does not test for None first (for every landmark, or for the
\* right arm of a bicep curl only), the division of line 275.
Raises(exercise_type, f, state) ==
    \/ f.kind = "short"
    \/ /\ f.kind = "null"
       /\ exercise_type \in {"bicepCurl", "squat", "pushup", "shoulderPress"}
    \/ /\ f.kind = "pose"
       /\ exercise_type = "squat"
       /\ SquatRaises(f, SquatCalibrate(f, state))
    \/ /\ f.kind = "pose"
       /\ exercise_type = "bicepCurl"
       /\ IsNull(f.left) \/ IsNull(f.right)

\* A squat frame of lines 383-389: the knees at less than 130 degrees on
\* average and the hips more than 10% below the calibrated height.
SquatDeep(f, state) ==
    /\ f.kind = "pose"
    /\ LET cal == SquatCalibrate(f, state)
           avg2 == SquatKnees2(f)
       IN  /\ avg2 >= 0 /\ avg2 < 260
           /\ SquatRelative(f, cal)
           /\ cal.initial_hip_height # 0
           /\ HipDropped(HipHeight(f), cal.initial_hip_height)

\* The frame has dictionaries for the landmarks its classifier needs, and
\* none of them has 'x' and 'y'.
LandmarksMissing(exercise_type, f) ==
    CASE f.kind = "nokeys" -> TRUE
      [] f.kind \in {"short", "null"} -> FALSE
      [] exercise_type \in {"bicepCurl", "shoulderPress", "pullUp"} ->
            ~HasXY(f.left) /\ ~HasXY(f.right)
      [] exercise_type = "squat" ->
            /\ ~HasXY(f.lhip) /\ ~HasXY(f.rhip)
            /\ ~HasXY(f.lleg) /\ ~HasXY(f.rleg)
      [] exercise_type = "pushup" ->
            /\ ~HasXY(f.shoulders) /\ ~HasXY(f.hips) /\ ~HasXY(f.ankles)
            /\ ~HasXY(f.larm) /\ ~HasXY(f.rarm)
      [] OTHER -> FALSE

NoHistory ==
    [reported |-> 0,        \* the repCounter of the last response
     lastInc |-> -1,        \* when repCounter last went up; -1: never
     started |-> FALSE,     \* a frame has shown the starting phase
     since |-> FALSE,       \* ... since repCounter last went up
     uncycled |-> FALSE,    \* repCounter went up twice with none in between
     curlL |-> -1,          \* since when the left elbow is below 40; -1: not
     curlR |-> -1,
     countedL |-> FALSE,    \* a curl of the left arm has been counted
     countedR |-> FALSE,
     sinceL |-> FALSE,      \* the left arm was extended since that curl
     sinceR |-> FALSE,
     pendL |-> -1,          \* since when the left elbow is below 40 in the
     pendR |-> -1,          \* curl that alone was last counted; -1: it ended
     brief |-> FALSE,       \* a counted curl of an arm that had been extended
                            \* ended before it had lasted hold_threshold
     trip |-> "fresh",      \* the round trip: fresh, extended, curled, again
     tripTime |-> 0,
     bentAt |-> -1,         \* tricep extension: when the elbow was first seen
                            \* below 100 degrees; -1: never
     extended |-> FALSE,    \* ... and then above 130, more than
                            \* hold_threshold later
     squatSince |-> -1,     \* squat: when the squat frames that the session
                            \* has been receiving in stage "up" began; -1:
                            \* the last frame was no such frame
     invertedAt |-> -1]     \* handstand: the time of the frame that set the
                            \* stage to "inverted"; -1: none, or a frame of
                            \* broken form was processed since

\* Since when an elbow is below 40, after a frame at current_time.
CurlSince(was, arm, current_time) ==
    IF ArmCurled(arm) THEN (IF was = -1 THEN current_time ELSE was) ELSE -1

\* The round trip of a bicep-curl session from its first frame: an extended
\* left arm with no arm curled, a curled left arm more than hold_threshold
\* later, the same frame again 200 ms later.
Trip(h, f, last, current_time) ==
    IF f.kind # "pose" THEN "off"
    ELSE IF h.trip = "fresh" /\ ArmExtended(f.left) /\ ~ArmCurled(f.right)
    THEN "extended"
    ELSE IF /\ h.trip = "extended" /\ ArmCurled(f.left)
            /\ current_time - h.tripTime > hold_threshold
    THEN "curled"
    ELSE IF /\ h.trip = "curled" /\ f = last
            /\ current_time - h.tripTime = 200
    THEN "again"
    ELSE "off"

\* Two clients are sent the same frames at the same clock, one after the
\* other: "even" when both have been sent the same, "owed" when the client
\* of the last request is one frame ahead, "off" otherwise.
Mirror(m, last, key, f, dt) ==
    IF m = "even" THEN "owed"
    ELSE IF m = "owed" /\ last.key # key /\ last.landmarks = f /\ dt = 0
    THEN "even"
    ELSE "off"

\* The history after a frame f took the session from pre to post.  last is
\* the frame before f when that was a frame of this session.
Observe(h, exercise_type, f, last, pre, post, current_time) ==
    LET up == post.repCounter > pre.repCounter
        bicep == exercise_type = "bicepCurl" /\ f.kind = "pose"
        tricep == /\ exercise_type = "tricepExtension"
                  /\ f.kind = "pose" /\ HasXY(f.left)
        start == StartPhase(exercise_type, f, pre)
        detL == bicep /\ pre.leftArmStage = "down" /\ post.leftArmStage = "up"
        detR == bicep /\ pre.rightArmStage = "down"
                      /\ post.rightArmStage = "up"
        curlL == IF bicep THEN CurlSince(h.curlL, f.left, current_time)
                 ELSE -1
        curlR == IF bicep THEN CurlSince(h.curlR, f.right, current_time)
                 ELSE -1
        endedL == /\ bicep /\ h.pendL # -1
                  /\ HasXY(f.left) /\ ~ArmCurled(f.left)
        endedR == /\ bicep /\ h.pendR # -1
                  /\ HasXY(f.right) /\ ~ArmCurled(f.right)
        again == IF exercise_type = "bicepCurl"
                 THEN \/ detL /\ h.countedL /\ ~h.sinceL
                      \/ detR /\ h.countedR /\ ~h.sinceR
                 ELSE h.lastInc # -1 /\ ~h.since
    IN  [reported |-> post.repCounter,
         lastInc |-> IF up THEN current_time ELSE h.lastInc,
         started |-> h.started \/ start,
         since |-> IF up THEN FALSE ELSE h.since \/ start,
         uncycled |-> h.uncycled \/ (up /\ again),
         curlL |-> curlL,
         curlR |-> curlR,
         countedL |-> h.countedL \/ (up /\ detL),
         countedR |-> h.countedR \/ (up /\ detR),
         sinceL |-> IF up /\ detL THEN FALSE
                    ELSE h.sinceL \/ (bicep /\ ArmExtended(f.left)),
         sinceR |-> IF up /\ detR THEN FALSE
                    ELSE h.sinceR \/ (bicep /\ ArmExtended(f.right)),
         pendL |-> IF up /\ detL /\ ~detR /\ h.sinceL THEN curlL
                   ELSE IF endedL THEN -1 ELSE h.pendL,
         pendR |-> IF up /\ detR /\ ~detL /\ h.sinceR THEN curlR
                   ELSE IF endedR THEN -1 ELSE h.pendR,
         brief |-> \/ h.brief
                   \/ endedL /\ current_time - h.pendL < hold_threshold
                   \/ endedR /\ current_time - h.pendR < hold_threshold,
         trip |-> IF exercise_type = "bicepCurl"
                  THEN Trip(h, f, last, current_time) ELSE "off",
         tripTime |-> current_time,
         bentAt |-> IF h.bentAt = -1 /\ tricep /\ f.left.v < 100
                    THEN current_time ELSE h.bentAt,
         extended |-> \/ h.extended
                      \/ /\ tricep /\ f.left.v > 130
                         /\ h.bentAt # -1
                         /\ current_time - h.bentAt > hold_threshold,
         squatSince |-> IF /\ exercise_type = "squat"
                           /\ SquatDeep(f, pre) /\ pre.stage = "up"
                        THEN IF h.squatSince = -1 THEN current_time
                             ELSE h.squatSince
                        ELSE -1,
         invertedAt |-> IF exercise_type # "handstand" THEN h.invertedAt
                        ELSE IF pre.stage # "inverted"
                                /\ post.stage = "inverted"
                             THEN current_time
                        ELSE IF f.kind = "pose" /\ ~IsGoodForm(f) THEN -1
                        ELSE h.invertedAt]

-----------------------------------------------------------------------------
(* process_landmarks *)

\* The frames of a tricep-extension client: the elbows bent and extended.
TricepFrames ==
    {ShortFrame, [kind |-> "pose", left |-> NoKeys, right |-> NoKeys]} \cup
    {[kind |-> "pose", left |-> Lm(a), right |-> Lm(a)] : a \in {80, 170}}

\* The frames a client of each exercise type sends.
Frames(exercise_type) ==
    CASE exercise_type = "bicepCurl" -> BicepFrames
      [] exercise_type = "squat" -> SquatFrames
      [] exercise_type = "pushup" -> PushupFrames
      [] exercise_type = "shoulderPress" -> PressFrames
      [] exercise_type = "handstand" -> HandstandFrames
      [] exercise_type = "pullUp" -> PullUpFrames
      [] exercise_type = "situp" -> SitupFrames
      [] exercise_type = "jumpingJacks" -> JacksFrames
      [] exercise_type = "lunge" -> LungeFrames
      [] OTHER -> TricepFrames

\* Dispatch with the default exercise type of line 39 run for a type that is
\* not listed.
DispatchDefaultBicep(exercise_type, landmarks, client_state, current_time) ==
    CASE exercise_type = "bicepCurl" ->
            process_bicep_curl(landmarks, client_state, current_time)
      [] exercise_type = "squat" ->
            process_squat(landmarks, client_state, current_time)
      [] exercise_type = "pushup" ->
            process_pushup(landmarks, client_state, current_time)
      [] exercise_type = "shoulderPress" ->
            process_shoulder_press(landmarks, client_state, current_time)
      [] exercise_type = "handstand" ->
            process_handstand(landmarks, client_state, current_time)
      [] exercise_type = "pullUp" ->
            process_pull_up(landmarks, client_state, current_time)
      [] exercise_type = "situp" ->
            process_situp(landmarks, client_state, current_time)
      [] exercise_type = "jumpingJacks" ->
            process_jumping_jacks(landmarks, client_state, current_time)
      [] exercise_type = "lunge" ->
            process_lunge(landmarks, client_state, current_time)
      [] OTHER ->
            process_bicep_curl(landmarks, client_state, current_time)

\* Lines 64-89: the echo of the stored counter and stage, replaced by the
\* classifier's result for a dispatched type.
Dispatch(exercise_type, landmarks, client_state, current_time) ==
    CASE exercise_type = "bicepCurl" ->
            process_bicep_curl(landmarks, client_state, current_time)
      [] exercise_type = "squat" ->
            process_squat(landmarks, client_state, current_time)
      [] exercise_type = "pushup" ->
            process_pushup(landmarks, client_state, current_time)
      [] exercise_type = "shoulderPress" ->
            process_shoulder_press(landmarks, client_state, current_time)
      [] exercise_type = "handstand" ->
            process_handstand(landmarks, client_state, current_time)
      [] exercise_type = "pullUp" ->
            process_pull_up(landmarks, client_state, current_time)
      [] exercise_type = "situp" ->
            process_situp(landmarks, client_state, current_time)
      [] exercise_type = "jumpingJacks" ->
            process_jumping_jacks(landmarks, client_state, current_time)
      [] exercise_type = "lunge" ->
            process_lunge(landmarks, client_state, current_time)
      [] OTHER ->
            [state |-> client_state,
             result |-> [repCounter |-> client_state.repCounter,
                         stage |-> client_state.stage,
                         feedback |-> ""]]

\* GetOrCreate without the membership test.
GetOrCreateFresh(states, key, exercise_type) ==
    (key :> NewState(exercise_type)) @@ states

\* Lines 45-57: the store with a fresh state under a key it does not hold.
GetOrCreate(states, key, exercise_type) ==
    IF key \notin DOMAIN states
    THEN (key :> NewState(exercise_type)) @@ states
    ELSE states

\* One request, handled from line 37 to line 94 with no other request
\* handled in between.
process_landmarks(session_id, exercise_type, landmarks, dt) ==
    LET key == client_key(session_id, exercise_type)
        states == GetOrCreate(exercise_states, key, exercise_type)
        client_state == states[key]
        current_time == now + dt
        out == Dispatch(exercise_type, landmarks, client_state, current_time)
    IN  /\ calls < MaxCalls
        /\ now' = current_time
        /\ calls' = calls + 1
        /\ exercise_states' = [states EXCEPT ![key] = out.state]
        /\ request' = [sessionId |-> session_id,
                       exerciseType |-> exercise_type,
                       landmarks |-> landmarks,
                       key |-> key]
        /\ response' = out.result
        /\ history' =
              (key :> Observe(IF key \in DOMAIN history THEN history[key]
                              ELSE NoHistory,
                              exercise_type, landmarks,
                              IF request.key = key THEN request.landmarks
                              ELSE ShortFrame,
                              client_state, out.state, current_time))
              @@ history
        /\ mirror' = Mirror(mirror, request, key, landmarks, dt)
        /\ UNCHANGED <<clients, threads, increments>>

NoRequest == [sessionId |-> "", exerciseType |-> "", landmarks |-> ShortFrame,
              key |-> ""]
NoResponse == [none |-> TRUE]
Idle == [pc |-> "idle"]

\* The server has just started: the store is empty.
Started ==
    /\ exercise_states = [k \in {} |-> NewState("")]
    /\ now = StartTime
    /\ calls = 0
    /\ request = NoRequest
    /\ response = NoResponse
    /\ history = [k \in {} |-> NoHistory]
    /\ mirror = "even"
    /\ threads = [t \in Threads |-> Idle]
    /\ increments = << >>

\* One client, of any exercise type.
Init ==
    /\ Started
    /\ clients \in {{<<"s1", e>>} : e \in ExerciseTypes}

Next ==
    \E c \in clients, dt \in Deltas :
        \E landmarks \in Frames(c[2]) :
            process_landmarks(c[1], c[2], landmarks, dt)

Spec == Init /\ [][Next]_vars

-----------------------------------------------------------------------------
(* The squat depth gate *)

\* The times between two frames of the squat client: none, hold_threshold
\* to the millisecond, and more.
GateDeltas == {0, hold_threshold, hold_threshold + 100}

\* Standing (knees at 165, hips at the calibrated height), squatting (knees
\* at 110, hips a fifth lower), in between, and out of view; and standing
\* and bending the knees with the hips above the top of the picture (y < 0),
\* higher still when the knees are bent.
GateFrames ==
    {SquatFrame(Lm(50), Lm(50), Lm(165), Lm(165), FALSE),
     SquatFrame(Lm(60), Lm(60), Lm(110), Lm(110), FALSE),
     SquatFrame(Lm(50), Lm(50), Lm(140), Lm(140), FALSE),
     SquatFrame(NoKeys, NoKeys, NoKeys, NoKeys, FALSE),
     SquatFrame(Lm(-10), Lm(-10), Lm(165), Lm(165), FALSE),
     SquatFrame(Lm(-20), Lm(-20), Lm(110), Lm(110), FALSE)}

InitGate ==
    /\ Started
    /\ clients = {<<"s1", "squat">>}

NextGate ==
    \E c \in clients, dt \in GateDeltas, landmarks \in GateFrames :
        process_landmarks(c[1], c[2], landmarks, dt)

SpecGate == InitGate /\ [][NextGate]_vars

-----------------------------------------------------------------------------
(* calculate_angle *)

(* A float is a record: "fin" with an integer value, "huge" with the sign  *)
(* of 1e308, "inf" with the sign of an infinity (JSON 1e999), or "nan".    *)
(* "raise" stands for an expression whose evaluation raised an exception.  *)
Fin(n) == [k |-> "fin", v |-> n]
Huge(sign) == [k |-> "huge", v |-> sign]
Inf(sign) == [k |-> "inf", v |-> sign]
NaN == [k |-> "nan", v |-> 0]
Raise == [k |-> "raise", v |-> 0]

\* A point: None, a dictionary without 'x' and 'y', and one with both.
NonePoint == [p |-> "none"]
NoKeysPoint == [p |-> "nokeys"]
Point(x, y) == [p |-> "xy", x |-> x, y |-> y]

\* p['x'], p['y']: TypeError on None, KeyError on a missing key.
GetX(p) == IF p.p = "xy" THEN p.x ELSE Raise
GetY(p) == IF p.p = "xy" THEN p.y ELSE Raise

\* x + y in double precision: 1e308 + 1e308 overflows to inf, 1e308 absorbs
\* a small term, inf - inf is nan.
FAdd(x, y) ==
    IF x.k = "raise" \/ y.k = "raise" THEN Raise
    ELSE IF x.k = "nan" \/ y.k = "nan" THEN NaN
    ELSE IF x.k = "inf"
         THEN IF y.k = "inf" /\ y.v # x.v THEN NaN ELSE x
    ELSE IF y.k = "inf" THEN y
    ELSE IF x.k = "huge"
         THEN IF y.k = "huge"
              THEN IF y.v = x.v THEN Inf(x.v) ELSE Fin(0)
              ELSE x
    ELSE IF y.k = "huge" THEN y
    ELSE Fin(x.v + y.v)

\* x - y
FSub(x, y) ==
    FAdd(x, IF y.k \in {"raise", "nan"} THEN y ELSE [y EXCEPT !.v = -@])

SignOf(n) == IF n < 0 THEN -1 ELSE IF n > 0 THEN 1 ELSE 0

\* x * y in double precision: 0 * inf is nan, 1e308 * 1e308 and 1e308 * 2
\* overflow to inf.
FMul(x, y) ==
    IF x.k = "raise" \/ y.k = "raise" THEN Raise
    ELSE IF x.k = "nan" \/ y.k = "nan" THEN NaN
    ELSE IF x.v = 0 \/ y.v = 0
         THEN IF x.k = "inf" \/ y.k = "inf" THEN NaN ELSE Fin(0)
    ELSE IF x.k = "inf" \/ y.k = "inf" THEN Inf(SignOf(x.v) * SignOf(y.v))
    ELSE IF x.k = "huge" /\ y.k = "huge" THEN Inf(x.v * y.v)
    ELSE IF x.k = "huge"
         THEN IF y.v \in {-1, 1} THEN Huge(x.v * y.v)
              ELSE Inf(x.v * SignOf(y.v))
    ELSE IF y.k = "huge"
         THEN IF x.v \in {-1, 1} THEN Huge(x.v * y.v)
              ELSE Inf(y.v * SignOf(x.v))
    ELSE Fin(x.v * y.v)

\* x ** 2: OverflowError for 1e308.
FSquare(x) ==
    IF x.k \in {"raise", "huge"} THEN Raise
    ELSE IF x.k = "nan" THEN NaN
    ELSE IF x.k = "inf" THEN Inf(1)
    ELSE Fin(x.v * x.v)

\* cos(d degrees) squared, in millionths, for d = 0 .. 90.
CosSquared ==
    <<1000000, 999695, 998782, 997261, 995134, 992404, 989074,
      985148, 980631, 975528, 969846, 963592, 956773, 949397,
      941474, 933013, 924024, 914519, 904508, 894005, 883022,
      871572, 859670, 847329, 834565, 821394, 807831, 793893,
      779596, 764960, 750000, 734736, 719186, 703368, 687303,
      671010, 654508, 637819, 620961, 603956, 586824, 569587,
      552264, 534878, 517450, 500000, 482550, 465122, 447736,
      430413, 413176, 396044, 379039, 362181, 345492, 328990,
      312697, 296632, 280814, 265264, 250000, 235040, 220404,
      206107, 192169, 178606, 165435, 152671, 140330, 128428,
      116978, 105995, 95492, 85481, 75976, 66987, 58526,
      50603, 43227, 36408, 30154, 24472, 19369, 14852,
      10926, 7596, 4866, 2739, 1218, 305, 0>>

\* Lines 126-136 for finite numbers: the angle in whole degrees whose cosine
\* is dot / sqrt(sq_ba * sq_bc), from the table; an obtuse angle is the
\* supplement of the acute one.
Degrees(dot, sq_ba, sq_bc) ==
    LET acute == CHOOSE d \in 0..90 :
                    /\ dot * dot * 1000000 <= CosSquared[d + 1] * sq_ba * sq_bc
                    /\ \A e \in (d + 1)..90 :
                          dot * dot * 1000000 >
                              CosSquared[e + 1] * sq_ba * sq_bc
    IN  IF dot >= 0 THEN acute ELSE 180 - acute

\* Lines 105-136, with no try around them.  sq_ba and sq_bc are the squares
\* of magnitude_ba and magnitude_bc: math.sqrt keeps 0, inf and nan.
AngleBody(a, b, c) ==
    LET ba_x == FSub(GetX(a), GetX(b))
        ba_y == FSub(GetY(a), GetY(b))
        bc_x == FSub(GetX(c), GetX(b))
        bc_y == FSub(GetY(c), GetY(b))
        dot_product == FAdd(FMul(ba_x, bc_x), FMul(ba_y, bc_y))
        sq_ba == FAdd(FSquare(ba_x), FSquare(ba_y))
        sq_bc == FAdd(FSquare(bc_x), FSquare(bc_y))
        product == FMul(sq_ba, sq_bc)
    IN  IF "raise" \in {dot_product.k, sq_ba.k, sq_bc.k} THEN Raise
        ELSE IF sq_ba = Fin(0) \/ sq_bc = Fin(0) THEN Fin(0)
        ELSE IF dot_product.k = "nan" \/ product.k = "nan" THEN NaN
        ELSE IF product.k = "inf"
             THEN IF dot_product.k = "inf" THEN NaN ELSE Fin(90)
        ELSE IF dot_product.k \in {"huge", "inf"}
             THEN IF dot_product.v > 0 THEN Fin(0) ELSE Fin(180)
        ELSE Fin(Degrees(dot_product.v, sq_ba.v, sq_bc.v))

\* calculate_angle without its try.
calculate_angle_unguarded(a, b, c) == AngleBody(a, b, c)

\* Lines 101-140: the angle, or 0 for any exception.
calculate_angle(a, b, c) ==
    IF AngleBody(a, b, c).k = "raise" THEN Fin(0) ELSE AngleBody(a, b, c)

\* The coordinates and points calculate_angle is called with.
Coordinates == {Fin(n) : n \in -1..2} \cup {Huge(-1), Huge(1), Inf(1)}
Points ==
    {NonePoint, NoKeysPoint} \cup {Point(x, y) : x, y \in Coordinates}

\* A call of calculate_angle with the points of the request.
angle_call ==
    /\ response = NoResponse
    /\ response' = calculate_angle(request.a, request.b, request.c)
    /\ UNCHANGED <<exercise_states, now, calls, clients, request, history,
                   mirror, threads, increments>>

\* A server with one session, and any three points.
InitAngle ==
    /\ exercise_states = ("s1_squat" :> NewState("squat"))
    /\ now = StartTime
    /\ calls = 0
    /\ clients = {<<"s1", "squat">>}
    /\ request \in [a : Points, b : Points, c : Points]
    /\ response = NoResponse
    /\ history = ("s1_squat" :> NoHistory)
    /\ mirror = "even"
    /\ threads = [t \in Threads |-> Idle]
    /\ increments = << >>

NextAngle == angle_call

SpecAngle == InitAngle /\ [][NextAngle]_vars

-----------------------------------------------------------------------------
(* Two clients *)

\* The exercise types of the clients that share the server.
IsoTypes == {"situp", "pullUp"}

\* Two sessions of one exercise type, or one session under two types.
InitIso ==
    /\ Started
    /\ clients \in {{<<"s1", e>>, <<"s2", e>>} : e \in IsoTypes}
                    \cup {{<<"s1", "situp">>, <<"s1", "pullUp">>},
                          {<<"s1", "situp">>, <<"s1", "tricepExtension">>}}

SpecIso == InitIso /\ [][Next]_vars

-----------------------------------------------------------------------------
(* Requests handled at the same time *)

(* app.run serves each request in a thread of its own, and nothing in       *)
(* process_landmarks or the classifiers takes a lock.  Here the threads     *)
(* handle squat requests statement by statement.  Lines 37-60 and the       *)
(* landmark arithmetic of lines 245-360 are one step, so every thread of a  *)
(* key works on the one dictionary stored under it and the assignment of    *)
(* line 92 stores what is stored already.                                   *)

\* The state stored under the key of the request thread t is handling.
Mine(t) == exercise_states[threads[t].key]

\* Lines 37-60 and 245-360: the request is read, its state found or created,
\* the clock read, the hip height calibrated and the locals computed.
squat_enter(t, session_id, landmarks, dt) ==
    LET key == client_key(session_id, "squat")
        states == GetOrCreate(exercise_states, key, "squat")
        current_time == now + dt
        indexed == landmarks.kind \notin {"short", "null"}
        cal == IF indexed THEN SquatCalibrate(landmarks, states[key])
               ELSE states[key]
        raises == ~indexed \/ SquatRaises(landmarks, cal)
        rel == ~raises /\ SquatRelative(landmarks, cal)
    IN  /\ threads[t].pc = "idle"
        /\ calls < MaxCalls
        /\ now' = current_time
        /\ calls' = calls + 1
        /\ exercise_states' = [states EXCEPT ![key] = cal]
        /\ request' = [sessionId |-> session_id, exerciseType |-> "squat",
                       landmarks |-> landmarks, key |-> key]
        /\ threads' =
             [threads EXCEPT ![t] =
                IF raises THEN [pc |-> "except", key |-> key]
                ELSE [pc |-> "stand", key |-> key,
                      current_time |-> current_time,
                      avg2 |-> SquatKnees2(landmarks),
                      rel |-> rel,
                      dropped |-> rel /\ HipDropped(HipHeight(landmarks),
                                                    cal.initial_hip_height),
                      narrow |-> /\ HasXY(landmarks.lhip)
                                 /\ HasXY(landmarks.rhip)
                                 /\ HasXY(landmarks.lleg)
                                 /\ HasXY(landmarks.rleg)
                                 /\ landmarks.narrow,
                      loaded |-> 0,
                      feedback |-> ""]]
        /\ UNCHANGED <<response, history, mirror, clients, increments>>

\* Lines 426-432 and 94.
squat_except(t) ==
    /\ threads[t].pc = "except"
    /\ response' = ExceptionResult(Mine(t)).result
    /\ threads' = [threads EXCEPT ![t] = Idle]
    /\ UNCHANGED <<exercise_states, now, calls, clients, request, history,
                   mirror, increments>>

\* Lines 370-374.
squat_stand(t) ==
    LET th == threads[t]
        toUp == th.avg2 > 300 /\ Mine(t).stage # "up"
    IN  /\ th.pc = "stand"
        /\ exercise_states' =
             IF toUp
             THEN [exercise_states EXCEPT
                     ![th.key].stage = "up",
                     ![th.key].holdStart = th.current_time]
             ELSE exercise_states
        /\ threads' =
             [threads EXCEPT
                ![t].pc = "guard",
                ![t].feedback = IF toUp
                                THEN "Standing position - ready to squat"
                                ELSE ""]
        /\ UNCHANGED <<now, calls, clients, request, response, history,
                       mirror, increments>>

\* Lines 378-393 and 398-401: the three conditions are read.
squat_guard(t) ==
    LET th == threads[t]
        state == Mine(t)
        bent == th.avg2 >= 0 /\ th.avg2 < 260
        squat_depth_confirmed == IF th.rel THEN th.dropped ELSE TRUE
        ready == bent /\ squat_depth_confirmed /\ state.stage = "up"
        held == th.current_time - state.holdStart > hold_threshold
        count == /\ ready /\ held
                 /\ th.current_time - state.lastRepTime > rep_cooldown
        fb == IF bent /\ th.rel /\ th.dropped THEN "Good squat depth!"
              ELSE th.feedback
    IN  /\ th.pc = "guard"
        /\ threads' =
             [threads EXCEPT
                ![t].pc = IF count THEN "stage" ELSE "form",
                ![t].feedback =
                    IF ready /\ ~held THEN "Hold squat position"
                    ELSE IF /\ bent /\ squat_depth_confirmed
                            /\ state.stage = "down"
                         THEN "Return to standing position"
                    ELSE fb]
        /\ UNCHANGED <<exercise_states, now, calls, clients, request,
                       response, history, mirror, increments>>

\* Line 394.
squat_set_stage(t) ==
    /\ threads[t].pc = "stage"
    /\ exercise_states' =
         [exercise_states EXCEPT ![threads[t].key].stage = "down"]
    /\ threads' = [threads EXCEPT ![t].pc = "load"]
    /\ UNCHANGED <<now, calls, clients, request, response, history, mirror,
                   increments>>

\* Line 395, the read of state['repCounter'].
squat_load_counter(t) ==
    /\ threads[t].pc = "load"
    /\ threads' = [threads EXCEPT ![t].pc = "store",
                                  ![t].loaded = Mine(t).repCounter]
    /\ UNCHANGED <<exercise_states, now, calls, clients, request, response,
                   history, mirror, increments>>

\* Line 395, the write of state['repCounter'].
squat_store_counter(t) ==
    /\ threads[t].pc = "store"
    /\ exercise_states' =
         [exercise_states EXCEPT
            ![threads[t].key].repCounter = threads[t].loaded + 1]
    /\ increments' = Append(increments, threads[t].current_time)
    /\ threads' = [threads EXCEPT ![t].pc = "last"]
    /\ UNCHANGED <<now, calls, clients, request, response, history, mirror>>

\* Lines 396-397.
squat_set_last(t) ==
    /\ threads[t].pc = "last"
    /\ exercise_states' =
         [exercise_states EXCEPT
            ![threads[t].key].lastRepTime = threads[t].current_time]
    /\ threads' = [threads EXCEPT
                     ![t].pc = "form",
                     ![t].feedback = "Rep complete! Great squat."]
    /\ UNCHANGED <<now, calls, clients, request, response, history, mirror,
                   increments>>

\* Lines 404-424, 92 and 94.
squat_return(t) ==
    LET th == threads[t]
        state == Mine(t)
        fb == IF /\ th.avg2 >= 0 /\ state.stage = "up"
                 /\ 260 < th.avg2 /\ th.avg2 < 300
              THEN "Begin squat - bend knees more"
              ELSE IF th.avg2 >= 0 /\ state.stage = "down" /\ th.avg2 > 280
                   THEN "Return to standing position fully"
              ELSE th.feedback
    IN  /\ th.pc = "form"
        /\ response' =
             [repCounter |-> state.repCounter, stage |-> state.stage,
              feedback |-> IF th.narrow
                           THEN "Wider stance recommended for stability"
                           ELSE fb]
        /\ threads' = [threads EXCEPT ![t] = Idle]
        /\ UNCHANGED <<exercise_states, now, calls, clients, request,
                       history, mirror, increments>>

\* The frames of the squat client whose requests overlap: standing and
\* squatting with one hip and with both hips in view, and an empty list.
ConcFrames ==
    {ShortFrame} \cup
    {SquatFrame(Lm(50), NoKeys, Lm(a), NoKeys, FALSE) : a \in {110, 165}} \cup
    {SquatFrame(Lm(50), Lm(50), Lm(165), Lm(165), FALSE),
     SquatFrame(Lm(60), Lm(60), Lm(110), Lm(110), FALSE)}

InitConc ==
    /\ Started
    /\ clients = {<<"s1", "squat">>}

NextConc ==
    \E t \in Threads :
        \/ \E c \in clients, dt \in Deltas, landmarks \in ConcFrames :
              squat_enter(t, c[1], landmarks, dt)
        \/ squat_except(t)
        \/ squat_stand(t)
        \/ squat_guard(t)
        \/ squat_set_stage(t)
        \/ squat_load_counter(t)
        \/ squat_store_counter(t)
        \/ squat_set_last(t)
        \/ squat_return(t)

SpecConc == InitConc /\ [][NextConc]_vars

-----------------------------------------------------------------------------
(* First requests handled at the same time *)

(* Two threads handle one sit-up request each, statement by statement from  *)
(* the membership test of line 45 to the assignment of line 92.  The        *)
(* dictionary a thread creates is its obj; stored tells whether it is the   *)
(* dictionary the store holds, and ref names the thread whose dictionary    *)
(* client_state refers to.  The classifier is one step.                     *)

\* A thread that has no request yet.
FirstIdle == [pc |-> "idle", stored |-> FALSE]

\* The thread whose dictionary the store holds.
Holder == CHOOSE u \in Threads : threads[u].stored

\* Lines 37-45: the request is read and the key looked up.
first_test(t, session_id, exercise_type, landmarks) ==
    LET key == client_key(session_id, exercise_type)
    IN  /\ threads[t].pc = "idle"
        /\ calls < MaxCalls
        /\ calls' = calls + 1
        /\ request' = [sessionId |-> session_id,
                       exerciseType |-> exercise_type,
                       landmarks |-> landmarks, key |-> key]
        /\ threads' =
             [threads EXCEPT ![t] =
                [pc |-> IF key \in DOMAIN exercise_states THEN "read"
                        ELSE "create",
                 stored |-> FALSE, key |-> key,
                 exerciseType |-> exercise_type, landmarks |-> landmarks]]
        /\ UNCHANGED <<exercise_states, now, response, history, mirror,
                       clients, increments>>

\* Lines 46-57: a new dictionary is stored under the key, whatever is there.
first_create(t) ==
    LET th == threads[t]
        state == NewState(th.exerciseType)
    IN  /\ th.pc = "create"
        /\ exercise_states' = (th.key :> state) @@ exercise_states
        /\ threads' =
             [u \in Threads |->
                IF u = t
                THEN ("obj" :> state) @@
                     [th EXCEPT !.pc = "read", !.stored = TRUE]
                ELSE [threads[u] EXCEPT !.stored = FALSE]]
        /\ UNCHANGED <<now, calls, clients, request, response, history,
                       mirror, increments>>

\* Lines 59-62: client_state is the dictionary the store holds now, and the
\* clock is read.
first_read(t, dt) ==
    /\ threads[t].pc = "read"
    /\ now' = now + dt
    /\ threads' =
         [threads EXCEPT ![t] =
            ("ref" :> Holder) @@ ("current_time" :> now + dt) @@
            [threads[t] EXCEPT !.pc = "classify"]]
    /\ UNCHANGED <<exercise_states, calls, clients, request, response,
                   history, mirror, increments>>

\* Lines 65-89: the classifier works on the dictionary client_state refers
\* to, in the store or not.
first_classify(t) ==
    LET th == threads[t]
        out == Dispatch(th.exerciseType, th.landmarks, threads[th.ref].obj,
                        th.current_time)
    IN  /\ th.pc = "classify"
        /\ threads' =
             [u \in Threads |->
                LET own == IF u = th.ref
                           THEN [threads[u] EXCEPT !.obj = out.state]
                           ELSE threads[u]
                IN  IF u = t
                    THEN ("result" :> out.result) @@
                         [own EXCEPT !.pc = "write"]
                    ELSE own]
        /\ exercise_states' =
             IF threads[th.ref].stored
             THEN [exercise_states EXCEPT ![th.key] = out.state]
             ELSE exercise_states
        /\ UNCHANGED <<now, calls, clients, request, response, history,
                       mirror, increments>>

\* Line 92: the store holds the dictionary client_state refers to.
first_write(t) ==
    LET th == threads[t]
    IN  /\ th.pc = "write"
        /\ exercise_states' =
             [exercise_states EXCEPT ![th.key] = threads[th.ref].obj]
        /\ threads' =
             [u \in Threads |->
                [(IF u = t THEN [th EXCEPT !.pc = "return"]
                  ELSE threads[u]) EXCEPT !.stored = (u = th.ref)]]
        /\ UNCHANGED <<now, calls, clients, request, response, history,
                       mirror, increments>>

\* Line 94.  The history keeps the highest repCounter the key was answered.
first_return(t) ==
    LET th == threads[t]
        h == IF th.key \in DOMAIN history THEN history[th.key] ELSE NoHistory
    IN  /\ th.pc = "return"
        /\ response' = th.result
        /\ history' =
             (th.key :> [h EXCEPT !.reported =
                            IF th.result.repCounter > @
                            THEN th.result.repCounter ELSE @]) @@ history
        /\ threads' = [threads EXCEPT ![t].pc = "done"]
        /\ UNCHANGED <<exercise_states, now, calls, clients, request,
                       mirror, increments>>

\* The server has just started, and one sit-up client sends two requests.
InitFirst ==
    /\ exercise_states = [k \in {} |-> NewState("")]
    /\ now = StartTime
    /\ calls = 0
    /\ clients = {<<"s1", "situp">>}
    /\ request = NoRequest
    /\ response = NoResponse
    /\ history = [k \in {} |-> NoHistory]
    /\ mirror = "even"
    /\ threads = [t \in Threads |-> FirstIdle]
    /\ increments = << >>

NextFirst ==
    \E t \in Threads :
        \/ \E c \in clients :
              \E landmarks \in Frames(c[2]) :
                 first_test(t, c[1], c[2], landmarks)
        \/ first_create(t)
        \/ \E dt \in Deltas : first_read(t, dt)
        \/ first_classify(t)
        \/ first_write(t)
        \/ first_return(t)

SpecFirst == InitFirst /\ [][NextFirst]_vars

-----------------------------------------------------------------------------
(* Between the thresholds *)

\* One client of a cyclic exercise, whose frames show the two phases of the
\* cycle and the metric on either threshold.  The times between two frames:
\* none, and more than hold_threshold.
BandTypes == DispatchedTypes \ {"handstand"}

BandDeltas == {0, hold_threshold + 100}

BandFrames(exercise_type) ==
    CASE exercise_type = "bicepCurl" ->
            {[kind |-> "pose", left |-> Lm(a), right |-> Lm(a)] :
                a \in {30, 40, 150, 170}} \cup
            {[kind |-> "pose", left |-> Lm(40), right |-> Lm(150)]}
      [] exercise_type = "squat" ->
            {SquatFrame(Lm(50), Lm(50), Lm(165), Lm(165), FALSE),
             SquatFrame(Lm(50), Lm(50), Lm(150), Lm(150), FALSE),
             SquatFrame(Lm(60), Lm(60), Lm(130), Lm(130), FALSE),
             SquatFrame(Lm(60), Lm(60), Lm(110), Lm(110), FALSE)}
      [] exercise_type = "pushup" ->
            {PushupFrame(Lm(40), Lm(45), Lm(50), Lm(a), Lm(a), 50, 170, 170) :
                a \in {90, 110, 150, 165}}
      [] exercise_type = "shoulderPress" ->
            {PressFrame(Lm(60), Lm(60), FALSE, FALSE),
             PressFrame(Lm(100), Lm(100), FALSE, FALSE),
             PressFrame(Lm(140), Lm(140), TRUE, TRUE),
             PressFrame(Lm(160), Lm(160), TRUE, TRUE)}
      [] exercise_type = "pullUp" ->
            {[kind |-> "pose", left |-> Lm(a), right |-> Lm(a)] :
                a \in {30, 50, 150, 170}}
      [] exercise_type = "situp" ->
            {[kind |-> "pose", left_angle |-> a, right_angle |-> a] :
                a \in {60, 80, 160, 170}}
      [] exercise_type = "jumpingJacks" ->
            {JacksFrame(170, 20, 175, 10),
             JacksFrame(150, 50, 160, 30),
             JacksFrame(120, 160, 140, 50),
             JacksFrame(100, 170, 130, 60)}
      [] exercise_type = "lunge" ->
            {LungeFrame(170, 170, 60, 60),
             LungeFrame(150, 150, 70, 60),
             LungeFrame(130, 110, 80, 60),
             LungeFrame(150, 90, 85, 60)}

InitBand ==
    /\ Started
    /\ clients \in {{<<"s1", e>>} : e \in BandTypes}

NextBand ==
    \E c \in clients, dt \in BandDeltas :
        \E landmarks \in BandFrames(c[2]) :
            process_landmarks(c[1], c[2], landmarks, dt)

SpecBand == InitBand /\ [][NextBand]_vars

-----------------------------------------------------------------------------
(* Properties *)

Sessions == DOMAIN exercise_states

\* The state a request finds under key k: the stored one, or the fresh one.
Found(k, exercise_type) ==
    IF k \in Sessions THEN exercise_states[k] ELSE NewState(exercise_type)

\* C1: over any sequence of requests with a non-decreasing clock, a
\* session's stored repCounter never decreases or disappears, and the
\* repCounter of each response is at least that of the session's last one.
RepCounterMonotonic ==
    [][/\ \A k \in Sessions :
            /\ k \in DOMAIN exercise_states'
            /\ exercise_states'[k].repCounter >= exercise_states[k].repCounter
       /\ \A k \in DOMAIN history :
            request'.key = k => response'.repCounter >= history[k].reported
      ]_vars

\* A session whose counter went up answers a later request that counts
\* nothing.
CountedThenAnswered ==
    \E k \in Sessions :
        /\ request.key = k
        /\ exercise_states[k].repCounter >= 1
        /\ response.repCounter = exercise_states[k].repCounter
        /\ history[k].lastInc < now

\* C2: in every exercise, when a session's repCounter goes up, more than
\* rep_cooldown has passed since it last went up.
IncrementsApart ==
    [][\A k \in Sessions :
          exercise_states'[k].repCounter > exercise_states[k].repCounter
          => \/ history[k].lastInc = -1
             \/ now' - history[k].lastInc > rep_cooldown
      ]_vars

\* A session's counter has just gone up for the second time.
SecondIncrement ==
    \E k \in Sessions :
        /\ exercise_states[k].repCounter >= 2
        /\ history[k].lastInc = now
        /\ request.key = k

\* C3: a bicep-curl rep is never counted for a curl that does not last
\* hold_threshold: once an arm has been extended, a counted curl of that arm
\* keeps the elbow below 40 degrees for at least hold_threshold.
CurlHeldBeforeCounted ==
    \A k \in DOMAIN history : ~history[k].brief

CountedOnlyAfterStart ==
    \A k \in Sessions :
        exercise_states[k].repCounter > 0 => history[k].started

\* C6, as claimed: no session's repCounter goes up twice (for bicep curl: for
\* the same arm) without a frame showing the starting phase in between.
OncePerCycle ==
    \A k \in DOMAIN history : ~history[k].uncycled

\* C6, amended: the same, of every classifier but the handstand.
OncePerCycleButHandstand ==
    \A k \in DOMAIN history :
        exercise_states[k].exerciseType # "handstand" =>
            ~history[k].uncycled

\* A session other than a handstand has gone through two whole cycles.
SecondCycleCounted ==
    \E k \in DOMAIN history :
        /\ exercise_states[k].exerciseType \notin {"handstand", "bicepCurl"}
        /\ exercise_states[k].repCounter >= 2
        /\ history[k].started
        /\ ~history[k].since

\* C9: a frame whose required landmarks lack x and y leaves repCounter,
\* stage and lastRepTime of its session as the request found them, and the
\* response carries that repCounter.
MissingLandmarksNoEffect ==
    [][LandmarksMissing(request'.exerciseType, request'.landmarks) =>
          LET k == request'.key
              pre == Found(k, request'.exerciseType)
              post == exercise_states'[k]
          IN  /\ post.repCounter = pre.repCounter
              /\ post.stage = pre.stage
              /\ post.lastRepTime = pre.lastRepTime
              /\ response'.repCounter = pre.repCounter
      ]_vars

\* A session that has counted a rep and left its initial stage is sent a
\* frame without coordinates.
MissingAfterProgress ==
    /\ request.key \in Sessions
    /\ LandmarksMissing(request.exerciseType, request.landmarks)
    /\ exercise_states[request.key].repCounter >= 1
    /\ exercise_states[request.key].stage # "down"

\* C10: the response to a frame whose required landmarks lack x and y has
\* a feedback that is not empty.
MissingLandmarksFeedback ==
    /\ request.exerciseType \in DispatchedTypes
    /\ LandmarksMissing(request.exerciseType, request.landmarks)
    => /\ "feedback" \in DOMAIN response
       /\ response.feedback # ""

\* C7: whatever the interleaving of two requests for one session, no two
\* executions of line 395 belong to requests within rep_cooldown of each
\* other, and once no thread is between the read and the write of line 395
\* the stored repCounter is the number of executions.
IncrementsSerialized ==
    /\ \A i, j \in DOMAIN increments :
          i < j => increments[j] - increments[i] > rep_cooldown
    /\ \A k \in Sessions :
          (\A t \in Threads : threads[t].pc # "store") =>
              exercise_states[k].repCounter = Len(increments)

\* C8: a request leaves the state of every other client as it was, absent
\* or stored, and two sessions of one exercise that have been sent the same
\* frames at the same clock hold equal states.
SessionsIsolated ==
    [][/\ \A c \in clients :
            c # <<request'.sessionId, request'.exerciseType>> =>
                LET k == client_key(c[1], c[2])
                IN  /\ (k \in DOMAIN exercise_states') = (k \in Sessions)
                    /\ k \in Sessions =>
                          exercise_states'[k] = exercise_states[k]
       /\ mirror' = "even" =>
            \A c, d \in clients :
                c[2] = d[2] =>
                    LET k == client_key(c[1], c[2])
                        j == client_key(d[1], d[2])
                    IN  /\ k \in DOMAIN exercise_states'
                        /\ j \in DOMAIN exercise_states'
                        /\ exercise_states'[k] = exercise_states'[j]
      ]_vars

\* Two sessions were sent the same frames, each has counted a rep under its
\* own key, and the last request left the other session's count in place.
MirroredSessionsCounted ==
    /\ mirror = "even"
    /\ \E k, j \in Sessions :
        /\ k # j
        /\ request.key = k
        /\ exercise_states[k].repCounter >= 1
        /\ exercise_states[j].repCounter = exercise_states[k].repCounter

\* The response reports an exception of the classifier.
IsError(r) == "feedback" \in DOMAIN r /\ r.feedback = "Error: exception"

\* C11, as claimed: a list too short, a list of nulls or landmarks without
\* keys is answered with the stored repCounter and stage and a feedback that
\* begins with "Error:".
MalformedAnsweredWithError ==
    /\ request.exerciseType \in DispatchedTypes
    /\ \/ request.landmarks.kind \in {"short", "null"}
       \/ LandmarksMissing(request.exerciseType, request.landmarks)
    => /\ IsError(response)
       /\ response.repCounter = exercise_states[request.key].repCounter
       /\ response.stage = exercise_states[request.key].stage

\* C11, amended: every request to a classifier is answered with a repCounter
\* and a stage; the answer reports an error exactly when the classifier
\* raised, and then its repCounter and stage are the ones stored before the
\* call, which the call leaves stored.
ExceptionsAnswered ==
    [][request'.exerciseType \in DispatchedTypes =>
          LET k == request'.key
              pre == Found(k, request'.exerciseType)
              post == exercise_states'[k]
              raised == Raises(request'.exerciseType, request'.landmarks, pre)
          IN  /\ {"repCounter", "stage"} \subseteq DOMAIN response'
              /\ raised <=> IsError(response')
              /\ raised =>
                    /\ response'.repCounter = pre.repCounter
                    /\ response'.stage = pre.stage
                    /\ post.repCounter = pre.repCounter
                    /\ post.stage = pre.stage
      ]_vars

\* A session that has counted a rep and left its initial stage is sent a
\* frame its classifier raises on.
ErrorAfterProgress ==
    /\ request.key \in Sessions
    /\ IsError(response)
    /\ exercise_states[request.key].repCounter >= 1
    /\ exercise_states[request.key].stage # "down"

\* C12: a request of a type that is not dispatched is answered with the
\* session's repCounter and stage and an empty feedback, and leaves every
\* stored state as it was.
UndispatchedEchoes ==
    [][request'.exerciseType \notin DispatchedTypes =>
          LET pre == Found(request'.key, request'.exerciseType)
          IN  /\ response' = [repCounter |-> pre.repCounter,
                              stage |-> pre.stage, feedback |-> ""]
              /\ \A k \in Sessions :
                    exercise_states'[k] = exercise_states[k]
      ]_vars

\* A tricep-extension frame with both elbows in view is echoed while another
\* session of the same client holds a counted rep.
EchoedBesideProgress ==
    /\ request.exerciseType = "tricepExtension"
    /\ request.landmarks.kind = "pose"
    /\ HasXY(request.landmarks.left)
    /\ response.feedback = ""
    /\ \E k \in Sessions :
          k # request.key /\ exercise_states[k].repCounter >= 1

\* C13: a tricep-extension session that was sent a bent elbow (< 100) and,
\* more than hold_threshold later, an extended one (> 130) has counted a rep.
TricepExtensionCounted ==
    \A k \in DOMAIN history :
        history[k].extended => exercise_states[k].repCounter >= 1

\* C14: the first request of a (session, type) pair is handled on a state with
\* repCounter 0, stage "down", lastRepTime 0, holdStart 0, both arm stages
\* "down" and both arm hold starts 0; a later request is handled on the state
\* the store holds, never on a new one.
InitialisedOnce ==
    [][LET k == request'.key
           e == request'.exerciseType
           f == request'.landmarks
           first == [repCounter |-> 0, stage |-> "down", lastRepTime |-> 0,
                     holdStart |-> 0,
                     leftArmStage |-> "down", rightArmStage |-> "down",
                     leftArmHoldStart |-> 0, rightArmHoldStart |-> 0,
                     exerciseType |-> e]
           pre == IF k \in Sessions THEN exercise_states[k] ELSE first
       IN  /\ exercise_states'[k] = Dispatch(e, f, pre, now').state
           /\ response' = Dispatch(e, f, pre, now').result
      ]_vars

\* A request is handled on a session that counted a rep on an earlier
\* request, and answered with that count.
LaterRequestKeepsProgress ==
    /\ request.key \in Sessions
    /\ history[request.key].lastInc # -1
    /\ history[request.key].lastInc < now
    /\ response.repCounter >= 1
    /\ exercise_states[request.key].lastRepTime > 0

\* C16: every response, on every path of every classifier, has the fields
\* repCounter, stage and feedback, the feedback being a string.
ResponseComplete ==
    response # NoResponse =>
        /\ {"repCounter", "stage", "feedback"} \subseteq DOMAIN response
        /\ response.feedback \in STRING

\* The stage names of an exercise type.
PhaseNames(exercise_type) ==
    CASE exercise_type = "handstand" -> {"inverted", "normal"}
      [] exercise_type = "jumpingJacks" -> {"closed", "open"}
      [] OTHER -> {"up", "down"}

\* C17, as claimed: the stored stage of a session is a phase name of its
\* exercise: "inverted" or "normal" for a handstand, "closed" or "open" for
\* jumping jacks, "up" or "down" for the others.
StageIsPhaseName ==
    \A k \in Sessions :
        exercise_states[k].stage \in PhaseNames(exercise_states[k].exerciseType)

\* C17, amended: the stored stage of a session is the initial "down" or a
\* phase name of its exercise.
StageIsInitialOrPhaseName ==
    \A k \in Sessions :
        exercise_states[k].stage \in
            {"down"} \cup PhaseNames(exercise_states[k].exerciseType)

\* A handstand session is back in "normal" after a counted handstand.
HandstandLeft ==
    /\ request.key \in Sessions
    /\ request.exerciseType = "handstand"
    /\ exercise_states[request.key].stage = "normal"
    /\ exercise_states[request.key].repCounter >= 1

\* C15: on a squat session in stage "up", a squat frame (average knee angle
\* below 130, hips more than 10% below the calibrated height) that ends at
\* least hold_threshold of such frames, with more than rep_cooldown since the
\* last rep, adds exactly one to repCounter and moves the stage to "down";
\* a squat frame that finds the stage "down" adds nothing.
SquatDepthGate ==
    [][request'.exerciseType = "squat" /\ request'.key \in Sessions =>
          LET k == request'.key
              pre == exercise_states[k]
              post == exercise_states'[k]
              deep == /\ "initial_hip_height" \in DOMAIN pre
                      /\ pre.initial_hip_height > 0
                      /\ SquatDeep(request'.landmarks, pre)
          IN  /\ /\ deep /\ pre.stage = "up"
                 /\ history[k].squatSince # -1
                 /\ now' - history[k].squatSince >= hold_threshold
                 /\ now' - pre.lastRepTime > rep_cooldown
                 => /\ post.repCounter = pre.repCounter + 1
                    /\ post.stage = "down"
              /\ deep /\ pre.stage = "down"
                 => post.repCounter = pre.repCounter
      ]_vars

\* The points of the request have coordinates, all of them finite.
FinitePoints ==
    \A p \in {request.a, request.b, request.c} :
        p.p = "xy" /\ p.x.k \in {"fin", "huge"} /\ p.y.k \in {"fin", "huge"}

\* C18: calculate_angle(a, b, c) is exactly 0 whenever a equals b or c
\* equals b, for all points.
ZeroAtCoincidentPoints ==
    /\ response # NoResponse
    /\ request.a = request.b \/ request.c = request.b
    => response = Fin(0)

\* C19: calculate_angle never raises: for any arguments, points without
\* keys and null points included, it returns a number, and 0 whenever an
\* exception occurs inside; it leaves the session store as it was.
AngleNeverRaises ==
    [][/\ response'.k \in {"fin", "nan"}
       /\ AngleBody(request.a, request.b, request.c) = Raise
             => response' = Fin(0)
       /\ exercise_states' = exercise_states
      ]_vars

\* calculate_angle has answered 0 to a null point and a point without keys.
AngleExceptionAnswered ==
    /\ response = Fin(0)
    /\ request.a = NonePoint
    /\ request.b = NoKeysPoint
    /\ request.c = Point(Fin(1), Fin(0))

\* C20: for all points a, b, c with (finite) numeric coordinates,
\* calculate_angle(a, b, c) is a value between 0 and 180.
AngleInRange ==
    response # NoResponse /\ FinitePoints
    => /\ response.k = "fin"
       /\ 0 <= response.v /\ response.v <= 180

\* The place of a finite coordinate on the number line: 1e308 far outside
\* the small ones.
Rank(x) == IF x.k = "huge" THEN 10 * x.v ELSE x.v

\* a, b and c are on one line, b strictly between a and c.
StrictlyBetween(a, b, c) ==
    LET ba_x == Rank(a.x) - Rank(b.x)
        ba_y == Rank(a.y) - Rank(b.y)
        bc_x == Rank(c.x) - Rank(b.x)
        bc_y == Rank(c.y) - Rank(b.y)
    IN  /\ ba_x * bc_y = ba_y * bc_x
        /\ ba_x * bc_x + ba_y * bc_y < 0

\* C21: for all points a, b, c on one line with b strictly between a and c,
\* calculate_angle(a, b, c) is 180 degrees (to the whole degree, which the
\* tolerance of 1e-6 rounds to).
StraightLineIs180 ==
    /\ response # NoResponse
    /\ FinitePoints
    /\ StrictlyBetween(request.a, request.b, request.c)
    => response = Fin(180)

\* C22: a ratio with a zero denominator does not make its classifier fail:
\* a handstand frame with the shoulders on one point, and a squat frame with
\* both hips in view on a session calibrated to the hip height 0, are
\* answered from the classifier's normal path, not from its except branch.
ZeroDenominatorNeutral ==
    /\ request.key \in Sessions
    /\ request.landmarks.kind = "pose"
    /\ \/ /\ request.exerciseType = "handstand"
          /\ request.landmarks.shoulder_distance = 0
       \/ /\ request.exerciseType = "squat"
          /\ HasXY(request.landmarks.lhip) /\ HasXY(request.landmarks.rhip)
          /\ "initial_hip_height" \in DOMAIN exercise_states[request.key]
          /\ exercise_states[request.key].initial_hip_height = 0
    => ~IsError(response)

\* C23: a hold timestamp that has been assigned (holdStart, leftArmHoldStart,
\* rightArmHoldStart) is assigned again only by a frame that changes the
\* stage it belongs to; a further frame in the same phase does not refresh
\* it.
HoldStartOnlyOnEntry ==
    [][\A k \in Sessions :
          LET pre == exercise_states[k]
              post == exercise_states'[k]
          IN  /\ pre.holdStart # 0 /\ post.holdStart # pre.holdStart
                 => post.stage # pre.stage
              /\ pre.leftArmHoldStart # 0
                 /\ post.leftArmHoldStart # pre.leftArmHoldStart
                 => post.leftArmStage # pre.leftArmStage
              /\ pre.rightArmHoldStart # 0
                 /\ post.rightArmHoldStart # pre.rightArmHoldStart
                 => post.rightArmStage # pre.rightArmStage
      ]_vars

\* C24: when the first requests of a key are handled at the same time, the
\* store never holds, under that key, a repCounter lower than one a response
\* for the key has carried.
FirstRequestsKeepCount ==
    \A k \in Sessions \cap DOMAIN history :
        exercise_states[k].repCounter >= history[k].reported

\* The plank precondition of a push-up frame fails: the alignment score is
\* at most 70, a wrist is out of view, or the wrists are 0.2 or more above
\* or below the shoulders.
PlankFails(f) ==
    \/ Alignment(f) <= 252
    \/ ~HasXY(f.larm) \/ ~HasXY(f.rarm)
    \/ Abs(f.wristY - f.shoulders.v) >= 20

SquatDepthRequired ==
    [][/\ request'.exerciseType = "squat"
       /\ exercise_states'[request'.key].repCounter
             > Found(request'.key, "squat").repCounter
       => LET f == request'.landmarks
              pre == Found(request'.key, "squat")
              hips == HasXY(f.lhip) /\ HasXY(f.rhip)
              initial == IF "initial_hip_height" \in DOMAIN pre
                         THEN pre.initial_hip_height ELSE HipHeight(f)
          IN  /\ f.kind = "pose"
              /\ SquatKnees2(f) >= 0 /\ SquatKnees2(f) < 260
              /\ pre.stage = "up"
              /\ ~hips \/ 10 * (HipHeight(f) - initial) > Abs(initial)
      ]_vars

\* C27: a handstand is counted only on a frame of good form that arrives
\* more than hold_threshold after the frame that set the stage to
\* "inverted", no frame of broken form having been processed in between; a
\* frame with every landmark in view and broken form takes the stage from
\* "inverted" to "normal", and the next frame of good form starts the hold
\* again.
HandstandHeld ==
    [][request'.exerciseType = "handstand" =>
          LET k == request'.key
              f == request'.landmarks
              pre == Found(k, "handstand")
              post == exercise_states'[k]
              h == IF k \in DOMAIN history THEN history[k] ELSE NoHistory
          IN  /\ post.repCounter > pre.repCounter
                 => /\ f.kind = "pose" /\ IsGoodForm(f)
                    /\ h.invertedAt # -1
                    /\ now' - h.invertedAt > hold_threshold
              /\ f.kind = "pose" /\ ~IsGoodForm(f) /\ pre.stage = "inverted"
                 => post.stage = "normal"
              /\ f.kind = "pose" /\ IsGoodForm(f) /\ pre.stage # "inverted"
                 => /\ post.stage = "inverted"
                    /\ post.holdStart = now'
                    /\ post.repCounter = pre.repCounter
      ]_vars

\* A handstand was counted on this frame, more than hold_threshold after
\* the frame that set the stage to "inverted".
HandstandCounted ==
    /\ request.exerciseType = "handstand"
    /\ history[request.key].lastInc = now
    /\ history[request.key].invertedAt # -1
    /\ now - history[request.key].invertedAt > hold_threshold
    /\ exercise_states[request.key].stage = "inverted"

\* ProperLunge: the frame shows the lunge of lines 1429-1433, the front knee
\* at less than 110 degrees, the back knee at more than 130 and the knees
\* more than 0.2 apart in height.
ProperLunge(f) ==
    LET leftLower == f.left_knee_y > f.right_knee_y
        front == IF leftLower THEN f.right_leg_angle ELSE f.left_leg_angle
        back == IF leftLower THEN f.left_leg_angle ELSE f.right_leg_angle
    IN  /\ front < 110 /\ back > 130
        /\ Abs(f.left_knee_y - f.right_knee_y) > 20

\* InDeadBand: the metric of frame f lies between the two thresholds of its
\* exercise, bounds included (averages are doubled, as in the classifiers).
InDeadBand(exercise_type, f) ==
    /\ f.kind = "pose"
    /\ CASE exercise_type = "bicepCurl" ->
                /\ HasXY(f.left) \/ HasXY(f.right)
                /\ HasXY(f.left) => f.left.v \in 40..150
                /\ HasXY(f.right) => f.right.v \in 40..150
         [] exercise_type = "squat" -> SquatKnees2(f) \in 260..300
         [] exercise_type = "pushup" -> ArmsAvg2(f) \in 220..300
         [] exercise_type = "shoulderPress" -> PressAvg2(f) \in 200..280
         [] exercise_type = "pullUp" ->
                /\ HasXY(f.left) \/ HasXY(f.right)
                /\ PullUpArm2(f) \in 100..300
         [] exercise_type = "situp" ->
                f.left_angle + f.right_angle \in 160..320
         [] exercise_type = "jumpingJacks" ->
                ~IsClosedPosition(f) /\ ~IsOpenPosition(f)
         [] exercise_type = "lunge" ->
                ~StartPhase("lunge", f, NewState("lunge")) /\ ~ProperLunge(f)
         [] OTHER -> FALSE

CycleFields ==
    {"stage", "leftArmStage", "rightArmStage", "holdStart",
     "leftArmHoldStart", "rightArmHoldStart", "lastRepTime", "repCounter"}

\* C28: in every cyclic exercise, a frame whose metric lies between the two
\* thresholds, bounds included, changes none of stage, leftArmStage,
\* rightArmStage, holdStart, leftArmHoldStart, rightArmHoldStart,
\* lastRepTime and repCounter of its session.
DeadBand ==
    [][InDeadBand(request'.exerciseType, request'.landmarks) =>
          LET k == request'.key
              pre == Found(k, request'.exerciseType)
              post == exercise_states'[k]
          IN  \A field \in CycleFields : post[field] = pre[field]
      ]_vars

\* A squat session that has counted a repetition has just handled a frame
\* with the knees at 150 degrees exactly, and its stage is still "down".
DeadBandOnThreshold ==
    /\ request.exerciseType = "squat"
    /\ InDeadBand("squat", request.landmarks)
    /\ SquatKnees2(request.landmarks) = 300
    /\ exercise_states[request.key].repCounter >= 1
    /\ exercise_states[request.key].stage = "down"

DeferTypes ==
    {"squat", "pushup", "shoulderPress", "situp", "jumpingJacks", "lunge"}

\* The stage a repetition is counted from, and the stage the count sets.
CountFrom(exercise_type) ==
    CASE exercise_type \in {"squat", "pushup", "lunge"} -> "up"
      [] exercise_type \in {"shoulderPress", "situp"} -> "down"
      [] exercise_type = "jumpingJacks" -> "closed"

CountTo(exercise_type) ==
    CASE exercise_type \in {"squat", "pushup", "lunge"} -> "down"
      [] exercise_type \in {"shoulderPress", "situp"} -> "up"
      [] exercise_type = "jumpingJacks" -> "open"

\* TerminalPhase: frame f shows the phase that completes a repetition of
\* its exercise, for a session in state.
TerminalPhase(exercise_type, f, state) ==
    /\ f.kind = "pose"
    /\ CASE exercise_type = "squat" ->
                LET cal == SquatCalibrate(f, state)
                IN  /\ ~SquatRaises(f, cal)
                    /\ SquatKnees2(f) >= 0 /\ SquatKnees2(f) < 260
                    /\ SquatRelative(f, cal)
                       => HipDropped(HipHeight(f), cal.initial_hip_height)
         [] exercise_type = "pushup" ->
                IsPlank(f) /\ ArmsAvg2(f) >= 0 /\ ArmsAvg2(f) < 220
         [] exercise_type = "shoulderPress" ->
                LET la == HasXY(f.left) /\ f.leftAbove
                    ra == HasXY(f.right) /\ f.rightAbove
                IN  /\ PressAvg2(f) > 280
                    /\ (la /\ ra) \/ ((la \/ ra) /\ PressAvg2(f) > 300)
         [] exercise_type = "situp" -> f.left_angle + f.right_angle < 160
         [] exercise_type = "jumpingJacks" -> IsOpenPosition(f)
         [] exercise_type = "lunge" -> ProperLunge(f)
         [] OTHER -> FALSE

\* C29: in squat, push-up, shoulder press, sit-up, jumping jacks and lunge,
\* a terminal-phase frame that finds the stage a repetition is counted from
\* and passes the hold check leaves stage, holdStart, lastRepTime and
\* repCounter as they are when it falls inside the cooldown, and is counted
\* when it comes more than rep_cooldown after the previous increment: so
\* terminal-phase frames that keep arriving are counted on the first of
\* them past the cooldown.
DeferredCount ==
    [][LET e == request'.exerciseType
           k == request'.key
           f == request'.landmarks
           pre == Found(k, e)
           post == exercise_states'[k]
       IN  /\ e \in DeferTypes
           /\ TerminalPhase(e, f, pre)
           /\ pre.stage = CountFrom(e)
           /\ now' - pre.holdStart > hold_threshold
           => IF now' - pre.lastRepTime > rep_cooldown
              THEN /\ post.repCounter = pre.repCounter + 1
                   /\ post.lastRepTime = now'
                   /\ post.stage = CountTo(e)
              ELSE /\ post.stage = pre.stage
                   /\ post.holdStart = pre.holdStart
                   /\ post.lastRepTime = pre.lastRepTime
                   /\ post.repCounter = pre.repCounter
      ]_vars

\* A squat session has just handled a squat frame that passed the hold
\* check inside the cooldown of its first repetition: the stage is still
\* "up".
CountDeferred ==
    /\ request.exerciseType = "squat"
    /\ TerminalPhase("squat", request.landmarks,
                     exercise_states[request.key])
    /\ exercise_states[request.key].stage = "up"
    /\ exercise_states[request.key].repCounter = 1
    /\ now - exercise_states[request.key].holdStart > hold_threshold
    /\ now - exercise_states[request.key].lastRepTime <= rep_cooldown

\* The arm of a bicep-curl frame completes a curl: it is in view and below
\* 40 degrees, its stage is "down" and its hold has lasted.
ArmCompletes(f, arm, stage, holdStart, current_time) ==
    /\ f.kind = "pose"
    /\ ArmCurled(f[arm])
    /\ stage = "down"
    /\ current_time - holdStart > hold_threshold

\* The frame shows the arms of a pull-up at more than 150 degrees, at less
\* than 50 degrees.
PullUpHanging(f) ==
    f.kind = "pose" /\ (HasXY(f.left) \/ HasXY(f.right)) /\ PullUpArm2(f) > 300

PullUpPulled(f) ==
    f.kind = "pose" /\ (HasXY(f.left) \/ HasXY(f.right)) /\ PullUpArm2(f) < 100

\* C30: in pull-up and bicep curl a completing frame inside the cooldown
\* advances the stage (pull-up "up" to "down", bicep arm stage "down" to
\* "up") and leaves repCounter and lastRepTime as they are; repCounter goes
\* up only on a frame that itself makes that transition; and the stage gets
\* back to where a cycle completes from only on a frame of the starting
\* phase (pull-up arms below 50 degrees, bicep arm above 150): the cycle that
\* was passed over is never counted, the next increment takes a new one.
LostCount ==
    [][LET e == request'.exerciseType
           k == request'.key
           f == request'.landmarks
           pre == Found(k, e)
           post == exercise_states'[k]
           inside == now' - pre.lastRepTime <= rep_cooldown
           left == ArmCompletes(f, "left", pre.leftArmStage,
                                pre.leftArmHoldStart, now')
           right == ArmCompletes(f, "right", pre.rightArmStage,
                                 pre.rightArmHoldStart, now')
       IN  /\ e = "pullUp" =>
                /\ PullUpHanging(f) /\ pre.stage = "up" /\ inside
                   => /\ post.stage = "down"
                      /\ post.repCounter = pre.repCounter
                      /\ post.lastRepTime = pre.lastRepTime
                /\ post.repCounter > pre.repCounter
                   => pre.stage = "up" /\ post.stage = "down"
                /\ pre.stage # "up" /\ post.stage = "up" => PullUpPulled(f)
           /\ e = "bicepCurl" =>
                /\ (left \/ right) /\ inside
                   => /\ left => post.leftArmStage = "up"
                      /\ right => post.rightArmStage = "up"
                      /\ post.repCounter = pre.repCounter
                      /\ post.lastRepTime = pre.lastRepTime
                /\ post.repCounter > pre.repCounter
                   => \/ left /\ post.leftArmStage = "up"
                      \/ right /\ post.rightArmStage = "up"
                /\ pre.leftArmStage = "up" /\ post.leftArmStage = "down"
                   => f.kind = "pose" /\ ArmExtended(f.left)
                /\ pre.rightArmStage = "up" /\ post.rightArmStage = "down"
                   => f.kind = "pose" /\ ArmExtended(f.right)
      ]_vars

\* A pull-up session that has counted one repetition and then seen the arms
\* pulled again has just handled a hanging frame inside the cooldown: the
\* stage is "down" and the counter is still 1.
CountLost ==
    /\ request.exerciseType = "pullUp"
    /\ PullUpHanging(request.landmarks)
    /\ history[request.key].since
    /\ history[request.key].lastInc < now
    /\ now - exercise_states[request.key].lastRepTime <= rep_cooldown
    /\ exercise_states[request.key].stage = "down"
    /\ exercise_states[request.key].repCounter = 1

\* The repCounter a key has in the store, 0 for a key it does not hold.
CounterOf(states, k) == IF k \in DOMAIN states THEN states[k].repCounter ELSE 0

\* The request just handled is a bicep-curl frame on which both arms
\* complete a curl, for a session found in state pre.
BothArmsComplete(e, f, pre, current_time) ==
    /\ e = "bicepCurl"
    /\ ArmCompletes(f, "left", pre.leftArmStage, pre.leftArmHoldStart,
                    current_time)
    /\ ArmCompletes(f, "right", pre.rightArmStage, pre.rightArmHoldStart,
                    current_time)

\* C31 as stated: a call increments repCounter by at most 1, and a
\* bicep-curl frame on which both arms complete a curl increments it by
\* exactly 1.
OneIncrementPerCall ==
    [][/\ \A k \in DOMAIN exercise_states' :
            CounterOf(exercise_states', k) <= CounterOf(exercise_states, k) + 1
       /\ LET e == request'.exerciseType
              k == request'.key
              pre == Found(k, e)
          IN  BothArmsComplete(e, request'.landmarks, pre, now')
              => exercise_states'[k].repCounter = pre.repCounter + 1
      ]_vars

\* C31: a call increments no session's repCounter by more than 1; a
\* bicep-curl frame on which both arms complete a curl increments it by
\* exactly 1 when it comes more than rep_cooldown after lastRepTime, and not
\* at all inside the cooldown.
OneIncrementPerCallCooled ==
    [][/\ \A k \in DOMAIN exercise_states' :
            CounterOf(exercise_states', k) <= CounterOf(exercise_states, k) + 1
       /\ LET e == request'.exerciseType
              k == request'.key
              pre == Found(k, e)
              post == exercise_states'[k]
          IN  BothArmsComplete(e, request'.landmarks, pre, now')
              => /\ post.leftArmStage = "up" /\ post.rightArmStage = "up"
                 /\ post.repCounter =
                       IF now' - pre.lastRepTime > rep_cooldown
                       THEN pre.repCounter + 1 ELSE pre.repCounter
      ]_vars

\* The second frame of a bicep-curl session, more than hold_threshold after
\* a first frame that showed both arms extended, shows both arms curled: the
\* counter is 1.
BothArmsCountedOnce ==
    /\ request.exerciseType = "bicepCurl"
    /\ calls = 2
    /\ request.landmarks.kind = "pose"
    /\ ArmCurled(request.landmarks.left) /\ ArmCurled(request.landmarks.right)
    /\ LET s == exercise_states[request.key]
       IN  /\ s.leftArmStage = "up" /\ s.rightArmStage = "up"
           /\ s.leftArmHoldStart >= StartTime
           /\ s.rightArmHoldStart >= StartTime
           /\ now - s.leftArmHoldStart > hold_threshold
           /\ now - s.rightArmHoldStart > hold_threshold
           /\ s.lastRepTime = now
           /\ s.repCounter = 1

\* The lastRepTime a key has in the store, 0 for a key it does not hold.
LastRepTimeOf(states, k) ==
    IF k \in DOMAIN states THEN states[k].lastRepTime ELSE 0

\* C32: in every session, a call changes lastRepTime if and only if it
\* increments repCounter, and then sets it to the call's timestamp; and
\* after every call repCounter is 0 exactly when lastRepTime is 0.
LastRepTimeTracksCount ==
    [][\A k \in DOMAIN exercise_states' :
          LET up == CounterOf(exercise_states', k)
                       > CounterOf(exercise_states, k)
              post == exercise_states'[k]
          IN  /\ post.lastRepTime # LastRepTimeOf(exercise_states, k) <=> up
              /\ up => post.lastRepTime = now'
              /\ post.repCounter = 0 <=> post.lastRepTime = 0
      ]_vars

\* The session of the last request has just counted its second repetition:
\* lastRepTime is the timestamp of this call, later than that of the first.
SecondRepStamped ==
    /\ request.key \in Sessions
    /\ exercise_states[request.key].repCounter = 2
    /\ exercise_states[request.key].lastRepTime = now
    /\ history[request.key].lastInc = now
    /\ now > StartTime + rep_cooldown

\* C33: for every exercise and every call, the stage of the response is the
\* stage stored in the session's state after the call.
ResponseStageIsStored ==
    /\ request.key \in Sessions
    /\ "stage" \in DOMAIN response
    => response.stage = exercise_states[request.key].stage

\* C34: a classifier call that ends in its exception handler leaves every
\* field of the session's state as it was before the call.
ExceptionLeavesState ==
    [][LET e == request'.exerciseType
           k == request'.key
       IN  /\ e \in DispatchedTypes
           /\ "feedback" \in DOMAIN response'
           /\ response'.feedback = "Error: exception"
           => exercise_states'[k] = Found(k, e)
      ]_vars

\* WriteOnce: field is absent from pre and post unless shows holds, in which
\* case post has it with the given value; once present it keeps its value.
WriteOnce(field, pre, post, shows, value) ==
    IF field \in DOMAIN pre
    THEN field \in DOMAIN post /\ post[field] = pre[field]
    ELSE IF shows
    THEN field \in DOMAIN post /\ post[field] = value
    ELSE field \notin DOMAIN post

CalibratedToZero(e, pre) ==
    /\ e = "squat"
    /\ "initial_hip_height" \in DOMAIN pre
    /\ pre.initial_hip_height = 0

BothHipsVisible(f) == f.kind = "pose" /\ HasXY(f.lhip) /\ HasXY(f.rhip)

AnsweredWithError(r) ==
    "feedback" \in DOMAIN r /\ r.feedback = "Error: exception"

\* C36 as stated: once a squat session's initial_hip_height is 0, every
\* frame with both hips visible ends in the exception path, and no frame
\* changes the session's repCounter or stage.
ZeroCalibrationFreezes ==
    [][LET e == request'.exerciseType
           k == request'.key
           f == request'.landmarks
           pre == Found(k, e)
           post == exercise_states'[k]
       IN  CalibratedToZero(e, pre)
           => /\ BothHipsVisible(f) => AnsweredWithError(response')
              /\ post.repCounter = pre.repCounter
              /\ post.stage = pre.stage
      ]_vars

\* C36: once a squat session's initial_hip_height is 0, every frame with
\* both hips visible ends in the exception path and leaves the state as it
\* is; repCounter and stage change only on frames in which a hip is not
\* visible.
ZeroCalibrationFreezesVisible ==
    [][LET e == request'.exerciseType
           k == request'.key
           f == request'.landmarks
           pre == Found(k, e)
           post == exercise_states'[k]
       IN  CalibratedToZero(e, pre)
           => /\ BothHipsVisible(f)
                 => AnsweredWithError(response') /\ post = pre
              /\ post.repCounter # pre.repCounter \/ post.stage # pre.stage
                 => f.kind = "pose" /\ ~BothHipsVisible(f)
      ]_vars

\* A squat session calibrated to 0 by an earlier frame has just handled a
\* frame with both hips at 50: the answer is the error response, and
\* repCounter and stage are at their initial values.
ZeroCalibrationRaised ==
    /\ request.exerciseType = "squat"
    /\ BothHipsVisible(request.landmarks)
    /\ HipHeight(request.landmarks) = 50
    /\ CalibratedToZero("squat", exercise_states[request.key])
    /\ AnsweredWithError(response)
    /\ exercise_states[request.key].repCounter = 0
    /\ exercise_states[request.key].stage = "down"

\* C37: the keys of the session store only grow: no step removes a key or
\* puts a new state in the place of one that had changed, and the key of a
\* request that has been answered is in the store.
StoreOnlyGrows ==
    [][/\ \A k \in Sessions :
            /\ k \in DOMAIN exercise_states'
            /\ exercise_states'[k] = NewState(exercise_states[k].exerciseType)
               => exercise_states[k] = exercise_states'[k]
       /\ response' # NoResponse => request'.key \in DOMAIN exercise_states'
      ]_vars

====
